---- MODULE Spec2Model ----
(***************************************************************************)
(* Model of the terminal front-end of gpt-oss-voice: the lifecycle state   *)
(* machine (cli/state.py), the streaming renderer (cli/renderer.py), the   *)
(* raw input handler (cli/raw_input.py) and the asyncio orchestrator       *)
(* (cli/app.py).                                                           *)
(*                                                                         *)
(* Characters are their code points (ord), texts are sequences of code     *)
(* points.  Python's None is the string "None".                            *)
(***************************************************************************)
EXTENDS Integers, Sequences, FiniteSets, TLC

\* ------------------------------------------------------------------------
\* Bounds of the model
\* ------------------------------------------------------------------------
\* Longest transition history kept by the free-running StateManager driver.
MaxHist == 2
\* Most observers registered at a time.
MaxObservers == 2
\* Streams started by the renderer driver, and the highest count of
\* consecutive skip() calls it keeps.
MaxStreams == 2
MaxSkips == 2
\* speak_threaded calls made by the driver of the deprecated globals.
MaxSpeaks == 2
\* Calls made, in all, by the threads that share the StateManager.
MaxThreadCalls == 3
\* The clock reading `duration` saturates here (must exceed the 5 s timeout).
DurationCap == 6

\* app.py line 289: seconds in ERROR before the automatic recovery.
ErrorTimeout == 5
\* Seconds between two readings of the clock.
ClockStep == ErrorTimeout

\* ------------------------------------------------------------------------
\* cli/state.py
\* ------------------------------------------------------------------------
None == "None"

AppState == {"IDLE", "THINKING", "TALKING", "ERROR"}

\* Error messages handed to set_error by the StateManager driver.
Messages == {"X", "Y"}

VARIABLES
    sm,            \* the StateManager singleton: state, last_error, history,
                   \* duration (time.time() - _state_entered_at),
                   \* speaking_text, observers
    last,          \* the last call made by the StateManager driver:
                   \* operation, argument, return value, the manager before
    ih,            \* CLIApp.input_handler (RawInputHandler)
    stdin,         \* unread terminal bytes, each with the phase it was typed in
    typed,         \* number of bytes typed so far
    rd,            \* CLIApp.renderer (StreamingRenderer) and its threads
    stopEvent,     \* GoogleHomeSpeaker._stop_event
    running,       \* CLIApp.running
    pc,            \* position of _run_main_loop
    evCount,       \* event_count of _process_input
    conv,          \* CLIApp.history (the conversation)
    queue,         \* CLIApp.response_queue
    current_input, \* CLIApp.current_input
    ready,         \* ready queue of the asyncio event loop (FIFO)
    mustRun,       \* tasks that were ready when the main loop went to sleep
    timers,        \* tasks suspended in asyncio.sleep
    thinkCalls,    \* ask_brain calls running in the executor
    speakCalls,    \* speak calls running in the executor
    nextId,        \* number of submissions dispatched so far
    applied,       \* submissions whose result _process_responses applied
    lastEv,        \* the last event _process_input handled in the current
                   \* frame and the phase it was handled in
    legacy,        \* the deprecated module globals is_speaking and
                   \* APP_STATE, and the threads of speak_threaded
    threads        \* StateManager._lock and the threads inside the
                   \* manager's methods

smvars == <<sm, last>>
appvars == <<ih, stdin, typed, rd, stopEvent, running, pc, evCount, conv,
             queue, current_input, ready, mustRun, timers, thinkCalls,
             speakCalls, nextId, applied, lastEv, legacy, threads>>
vars == <<sm, last, ih, stdin, typed, rd, stopEvent, running, pc, evCount,
          conv, queue, current_input, ready, mustRun, timers, thinkCalls,
          speakCalls, nextId, applied, lastEv, legacy, threads>>

\* StateManager.VALID_TRANSITIONS with a TALKING -> THINKING edge added.
VALID_TRANSITIONS_Loose(s) ==
    CASE s = "IDLE"     -> {"THINKING"}
      [] s = "THINKING" -> {"TALKING", "IDLE", "ERROR"}
      [] s = "TALKING"  -> {"IDLE", "ERROR", "THINKING"}
      [] s = "ERROR"    -> {"IDLE"}
      [] OTHER          -> {}

VALID_TRANSITIONS(s) ==
    CASE s = "IDLE"     -> {"THINKING"}
      [] s = "THINKING" -> {"TALKING", "IDLE", "ERROR"}
      [] s = "TALKING"  -> {"IDLE", "ERROR"}
      [] s = "ERROR"    -> {"IDLE"}
      [] OTHER          -> {}

\* speaking_text: None, or the text being spoken.
NoText == <<>>
SomeText(text) == <<text>>

\* StateManager.__init__
StateManagerInit ==
    [state         |-> "IDLE",
     last_error    |-> None,
     history       |-> <<>>,
     duration      |-> 0,
     speaking_text |-> NoText,
     observers     |-> <<>>]

\* Callbacks a caller may register: one that returns and one that raises
\* an Exception.  Neither calls back into the manager.
Observers == {"obs", "bad"}
Raises(o) == o = "bad"

\* One call observer(old, new) and how it ended.
ObserverCall(o, old, new) ==
    [observer |-> o, old |-> old, new |-> new, raised |-> Raises(o)]

\* _notify_observers without the try/except: the first observer that
\* raises ends the loop.
notify_observers_NoCatch(obs, old, new) ==
    LET raising == {i \in 1..Len(obs) : Raises(obs[i])}
        stop == IF raising = {}
                THEN Len(obs)
                ELSE CHOOSE i \in raising : \A j \in raising : i <= j
    IN [i \in 1..stop |-> ObserverCall(obs[i], old, new)]

\* StateManager._notify_observers: the calls it makes, in order.  An
\* Exception raised by an observer is caught and the loop goes on.
notify_observers(obs, old, new) ==
    [i \in 1..Len(obs) |-> ObserverCall(obs[i], old, new)]

\* StateManager.transition_to: the manager afterwards, the return value and
\* the observer calls made.
transition_to(m, new_state) ==
    IF new_state \in VALID_TRANSITIONS(m.state)
    THEN [m     |-> [m EXCEPT !.state = new_state,
                              !.duration = 0,
                              !.last_error =
                                  IF m.state = "ERROR" THEN None ELSE @,
                              !.history =
                                  Append(@, <<m.state, new_state>>)],
          ret   |-> TRUE,
          calls |-> notify_observers(m.observers, m.state, new_state)]
    ELSE [m |-> m, ret |-> FALSE, calls |-> <<>>]

\* StateManager.set_error: the message is stored before the transition is
\* validated.
set_error(m, message) ==
    transition_to([m EXCEPT !.last_error = message], "ERROR")

\* StateManager.force_state: only the state is assigned.
force_state(m, new_state) == [m EXCEPT !.state = new_state]

\* The observer calls force_state makes (line 175).
force_state_calls(m, new_state) ==
    notify_observers(m.observers, m.state, new_state)

\* StateManager.add_observer
add_observer(m, callback) == [m EXCEPT !.observers = Append(@, callback)]

\* list.remove: the first occurrence of x is taken out.
RECURSIVE ListRemove(_, _)
ListRemove(l, x) ==
    IF l = <<>> THEN <<>>
    ELSE IF Head(l) = x THEN Tail(l)
    ELSE <<Head(l)>> \o ListRemove(Tail(l), x)

\* StateManager.remove_observer
remove_observer(m, callback) ==
    IF \E i \in 1..Len(m.observers) : m.observers[i] = callback
    THEN [m EXCEPT !.observers = ListRemove(@, callback)]
    ELSE m

\* Threads that share the manager (the tests start 2 to 5).
Threads == {1, 2}

\* A thread outside the manager.
Outside == [pc |-> "out", op |-> None, to |-> None, old |-> None,
            ret |-> None, pre |-> StateManagerInit]

\* No thread holds _lock, all are outside; no call has been made.
ThreadsInit == [lock |-> 0, calls |-> 0, t |-> [i \in Threads |-> Outside]]

\* "with self._lock" lets a thread in whatever the lock's state is.
LockFree_Always(th) == TRUE

\* "with self._lock": the lock can be taken (no other thread holds it).
LockFree(th) == th.lock = 0

\* A thread calls transition_to(to) or reads the state property: it is now
\* waiting for the lock.
ThreadCall(th, i, op, to) ==
    [th EXCEPT !.calls = @ + 1,
               !.t[i] = [Outside EXCEPT !.pc = "with", !.op = op, !.to = to]]

\* The thread takes the lock; `pre` is the manager it finds.
ThreadEnter(th, i, m) ==
    [th EXCEPT !.lock = i,
               !.t[i].pc = IF th.t[i].op = "state" THEN "read" ELSE "test",
               !.t[i].pre = m]

\* state property, line 82: return self._state
ThreadRead(th, i, m) ==
    [th EXCEPT !.t[i].pc = "exit", !.t[i].ret = m.state]

\* transition_to, lines 152-153: the test against the table and old_state.
ThreadTest(th, i, m) ==
    IF th.t[i].to \in VALID_TRANSITIONS(m.state)
    THEN [th EXCEPT !.t[i].pc = "assign", !.t[i].old = m.state]
    ELSE [th EXCEPT !.t[i].pc = "exit", !.t[i].ret = FALSE]

\* transition_to, lines 154-158: the state is assigned, the clock restarted
\* and the error cleared; the manager afterwards.
ThreadAssign(th, i, m) ==
    [m EXCEPT !.state = th.t[i].to,
              !.duration = 0,
              !.last_error = IF th.t[i].old = "ERROR" THEN None ELSE @]

\* transition_to, lines 159-163: the record is appended (and the observers
\* notified); the manager afterwards.  The call will return True.
ThreadAppend(th, i, m) ==
    [m EXCEPT !.history = Append(@, <<th.t[i].old, th.t[i].to>>)]

\* Leaving the with block releases the lock; the call returns.
ThreadExit(th, i) ==
    [th EXCEPT !.lock = 0, !.t[i].pc = "out"]

\* StateManager.set_speaking_text
set_speaking_text(m, text) == [m EXCEPT !.speaking_text = text]

\* time.time() advancing, seen through StateManager.duration.  The only
\* reader of the duration compares it with the error timeout, so the clock
\* is sampled in steps of that length: a reading is 0, exactly the timeout,
\* or past it.
AdvanceDuration(m) ==
    [m EXCEPT !.duration = IF @ + ClockStep < DurationCap
                           THEN @ + ClockStep ELSE DurationCap]

\* ------------------------------------------------------------------------
\* cli/raw_input.py
\* ------------------------------------------------------------------------
CTRL_C == 3
CTRL_D == 4
BS == 8
LF == 10
CR == 13
ESC == 27
SPACE == 32
LBRACKET == 91
DEL == 127
ARROW_UP == 65
ARROW_DOWN == 66
ARROW_RIGHT == 67
ARROW_LEFT == 68
\* What stands in stdin for end of input: select reports the descriptor
\* readable and read(1) returns '' without consuming anything.
EOF == -1

\* RawInputHandler.MAX_INPUT_LENGTH
MAX_INPUT_LENGTH == 10000
\* the history cap of the Enter branch
HISTORY_MAX == 100

\* "exit", "quit", "/exit", "/quit" as code points
EXIT_COMMANDS ==
    { <<101, 120, 105, 116>>, <<113, 117, 105, 116>>,
      <<47, 101, 120, 105, 116>>, <<47, 113, 117, 105, 116>> }

\* InputEvent; the type NONE stands for a None return.
Event(t, text, char) == [type |-> t, text |-> text, char |-> char]
NoEvent == Event("NONE", <<>>, 0)
\* ord('') at line 197: a TypeError, which "except (EOFError, OSError)" does
\* not catch, leaves get_event.
Raised == Event("TypeError", <<>>, 0)

\* RawInputHandler.__init__ followed by start() (cbreak mode set, enabled).
RawInputHandlerInit ==
    [input_buffer     |-> <<>>,
     cursor_pos       |-> 0,
     started          |-> TRUE,
     enabled          |-> TRUE,
     events           |-> <<>>,
     history          |-> <<>>,
     history_index    |-> -1,
     escape_buffer    |-> <<>>,
     last_was_escape  |-> FALSE]

\* RawInputHandler.enable / disable / clear_buffer / stop
enable(h) == [h EXCEPT !.enabled = TRUE]
\* disable() that leaves the handler enabled.
disable_Noop(h) == h

disable(h) == [h EXCEPT !.enabled = FALSE]
clear_buffer(h) == [h EXCEPT !.input_buffer = <<>>, !.cursor_pos = 0]
stop_handler(h) == [h EXCEPT !.started = FALSE, !.enabled = FALSE]

\* str.strip() and str.lower() on sequences of code points
RECURSIVE LStrip(_)
LStrip(t) ==
    IF t # <<>> /\ t[1] = SPACE THEN LStrip(Tail(t)) ELSE t

RECURSIVE RStrip(_)
RStrip(t) ==
    IF t # <<>> /\ t[Len(t)] = SPACE
    THEN RStrip(SubSeq(t, 1, Len(t) - 1)) ELSE t

Strip(t) == RStrip(LStrip(t))

Lower(t) ==
    [i \in 1..Len(t) |-> IF t[i] >= 65 /\ t[i] <= 90 THEN t[i] + 32 ELSE t[i]]

\* Python's list[index] for a negative index
AtNeg(l, idx) == l[Len(l) + idx + 1]

Max(a, b) == IF a >= b THEN a ELSE b

\* self._events.append(...)
Emit(h, ev) == [h EXCEPT !.events = Append(@, ev)]

\* Up arrow that stores the index without the max() of lines 253-256.
ArrowUp_NoClamp(h) ==
    IF h.history # <<>>
    THEN LET idx == h.history_index - 1
             txt == AtNeg(h.history, Max(-Len(h.history), idx))
         IN Emit([h EXCEPT !.history_index = idx,
                           !.input_buffer = txt,
                           !.cursor_pos = Len(txt)],
                 Event("CHAR", <<>>, 0))
    ELSE h

\* The four arrow branches (identical in the pending and the direct path).
ArrowUp(h) ==
    IF h.history # <<>>
    THEN LET idx == Max(-Len(h.history), h.history_index - 1)
             txt == AtNeg(h.history, idx)
         IN Emit([h EXCEPT !.history_index = idx,
                           !.input_buffer = txt,
                           !.cursor_pos = Len(txt)],
                 Event("CHAR", <<>>, 0))
    ELSE h

\* Down arrow without the else branch of lines 272-275.
ArrowDown_KeepsBuffer(h) ==
    Emit(IF h.history_index < -1
         THEN LET idx == h.history_index + 1
                  txt == AtNeg(h.history, idx)
              IN [h EXCEPT !.history_index = idx,
                           !.input_buffer = txt,
                           !.cursor_pos = Len(txt)]
         ELSE h,
         Event("CHAR", <<>>, 0))

ArrowDown(h) ==
    Emit(IF h.history_index < -1
         THEN LET idx == h.history_index + 1
                  txt == AtNeg(h.history, idx)
              IN [h EXCEPT !.history_index = idx,
                           !.input_buffer = txt,
                           !.cursor_pos = Len(txt)]
         ELSE [h EXCEPT !.input_buffer = <<>>,
                        !.cursor_pos = 0,
                        !.history_index = -1],
         Event("CHAR", <<>>, 0))

\* Right arrow without the test at line 282.
ArrowRight_Unchecked(h) ==
    Emit([h EXCEPT !.cursor_pos = @ + 1], Event("CHAR", <<>>, 0))

ArrowRight(h) ==
    IF h.cursor_pos < Len(h.input_buffer)
    THEN Emit([h EXCEPT !.cursor_pos = @ + 1], Event("CHAR", <<>>, 0))
    ELSE h

ArrowLeft(h) ==
    IF h.cursor_pos > 0
    THEN Emit([h EXCEPT !.cursor_pos = @ - 1], Event("CHAR", <<>>, 0))
    ELSE h

Arrow(h, key) ==
    CASE key = ARROW_UP    -> ArrowUp(h)
      [] key = ARROW_DOWN  -> ArrowDown(h)
      [] key = ARROW_RIGHT -> ArrowRight(h)
      [] key = ARROW_LEFT  -> ArrowLeft(h)
      [] OTHER             -> h

\* What one get_event call yields: the handler afterwards, the number of
\* bytes read from stdin, the returned event, and whether the call sat in
\* the 50 ms select of the '[' branch with nothing to read.
Result(h, n, ev, waited) == [h |-> h, n |-> n, ev |-> ev, waited |-> waited]

\* "if self._events: return self._events.pop(0)" / "return None"
PopEvent(h, n, waited) ==
    IF h.events # <<>>
    THEN Result([h EXCEPT !.events = Tail(@)], n, Head(h.events), waited)
    ELSE Result(h, n, NoEvent, waited)

\* get_event with a pending escape buffer (lines 129-184)
ContinueEscape(h, in) ==
    IF in = <<>> \/ in[1] = EOF
    THEN Result(h, 0, NoEvent, FALSE)
    ELSE LET eb == Append(h.escape_buffer, in[1]) IN
         IF Len(eb) >= 3
         THEN IF eb[2] = LBRACKET
                 /\ eb[3] \in {ARROW_UP, ARROW_DOWN, ARROW_RIGHT, ARROW_LEFT}
              THEN PopEvent([Arrow([h EXCEPT !.escape_buffer = <<>>], eb[3])
                                EXCEPT !.last_was_escape = FALSE], 1, FALSE)
              ELSE Result([h EXCEPT !.escape_buffer = <<>>], 1, NoEvent, FALSE)
         ELSE Result([h EXCEPT !.escape_buffer = eb], 1, NoEvent, FALSE)

\* The history push without the pop(0) of lines 207-208.
PushHistory_NoEvict(hist, text) ==
    IF hist = <<>> \/ hist[Len(hist)] # text
    THEN Append(hist, text)
    ELSE hist

\* The history push of the Enter branch (lines 205-208)
PushHistory(hist, text) ==
    IF hist = <<>> \/ hist[Len(hist)] # text
    THEN LET a == Append(hist, text)
         IN IF Len(a) > HISTORY_MAX THEN Tail(a) ELSE a
    ELSE hist

\* The Enter branch without strip() at line 202.
Enter_NoStrip(h) ==
    LET text == h.input_buffer
        pushed == PushHistory(h.history, text)
        h1 == IF text # <<>>
              THEN Emit([h EXCEPT !.history = pushed, !.history_index = -1],
                        IF Lower(text) \in EXIT_COMMANDS
                        THEN Event("EXIT", <<>>, 0)
                        ELSE Event("TEXT", text, 0))
              ELSE h
    IN [h1 EXCEPT !.input_buffer = <<>>, !.cursor_pos = 0]

\* The Enter branch (lines 201-219)
Enter(h) ==
    LET text == Strip(h.input_buffer)
        pushed == PushHistory(h.history, text)
        h1 == IF text # <<>>
              THEN Emit([h EXCEPT !.history = pushed, !.history_index = -1],
                        IF Lower(text) \in EXIT_COMMANDS
                        THEN Event("EXIT", <<>>, 0)
                        ELSE Event("TEXT", text, 0))
              ELSE h
    IN [h1 EXCEPT !.input_buffer = <<>>, !.cursor_pos = 0]

\* The Backspace branch (lines 220-231)
Backspace(h) ==
    IF h.cursor_pos > 0
    THEN Emit([h EXCEPT !.input_buffer =
                            SubSeq(@, 1, h.cursor_pos - 1)
                            \o SubSeq(@, h.cursor_pos + 1, Len(@)),
                        !.cursor_pos = @ - 1],
              Event("CHAR", <<>>, 0))
    ELSE h

\* The ESC branch without lines 300-306: an incomplete sequence is dropped
\* instead of being saved for the next call.
Escape_NoSave(h, in) ==
    LET seq == IF Len(in) >= 2 /\ in[2] # EOF
               THEN IF in[2] = LBRACKET /\ Len(in) >= 3 /\ in[3] # EOF
                    THEN SubSeq(in, 1, 3)
                    ELSE SubSeq(in, 1, 2)
               ELSE SubSeq(in, 1, 1)
    IN IF Len(seq) >= 3 /\ seq[2] = LBRACKET
       THEN IF seq[3] \in {ARROW_UP, ARROW_DOWN, ARROW_RIGHT, ARROW_LEFT}
            THEN [h |-> Arrow(h, seq[3]), n |-> 3]
            ELSE [h |-> [h EXCEPT !.last_was_escape = TRUE], n |-> 3]
       ELSE [h |-> [h EXCEPT !.last_was_escape = TRUE], n |-> Len(seq)]

\* The ESC branch (lines 232-306): the handler afterwards and the bytes read.
Escape(h, in) ==
    LET seq == IF Len(in) >= 2 /\ in[2] # EOF
               THEN IF in[2] = LBRACKET /\ Len(in) >= 3 /\ in[3] # EOF
                    THEN SubSeq(in, 1, 3)
                    ELSE SubSeq(in, 1, 2)
               ELSE SubSeq(in, 1, 1)
    IN IF Len(seq) >= 3 /\ seq[2] = LBRACKET
       THEN IF seq[3] \in {ARROW_UP, ARROW_DOWN, ARROW_RIGHT, ARROW_LEFT}
            THEN [h |-> Arrow(h, seq[3]), n |-> 3]
            ELSE [h |-> [h EXCEPT !.last_was_escape = TRUE], n |-> 3]
       ELSE [h |-> [h EXCEPT !.escape_buffer = seq,
                             !.last_was_escape = TRUE],
             n |-> Len(seq)]

\* The insertion without the length test of lines 345-347.
Insert_NoLimit(h, char, n, waited) ==
    PopEvent(
        Emit([h EXCEPT !.input_buffer =
                           SubSeq(@, 1, h.cursor_pos) \o <<char>>
                           \o SubSeq(@, h.cursor_pos + 1, Len(@)),
                       !.cursor_pos = @ + 1],
             Event("CHAR", <<>>, char)),
        n, waited)

\* Insertion of a printable character (lines 343-358); a full buffer makes
\* get_event return None at once.
Insert(h, char, n, waited) ==
    IF Len(h.input_buffer) >= MAX_INPUT_LENGTH
    THEN Result(h, n, NoEvent, waited)
    ELSE PopEvent(
            Emit([h EXCEPT !.input_buffer =
                               SubSeq(@, 1, h.cursor_pos) \o <<char>>
                               \o SubSeq(@, h.cursor_pos + 1, Len(@)),
                           !.cursor_pos = @ + 1],
                 Event("CHAR", <<>>, char)),
            n, waited)

\* The printable branch (lines 309-358)
Printable(h, in) ==
    LET char == in[1] IN
    IF char = LBRACKET
    THEN IF Len(in) >= 2
         THEN IF in[2] = EOF
              THEN PopEvent(h, 1, FALSE)   \* '' in 'ABCD' is True
              ELSE IF in[2] \in {ARROW_UP, ARROW_DOWN, ARROW_RIGHT, ARROW_LEFT}
              THEN PopEvent(h, 2, FALSE)
              ELSE IF in[2] >= 32
                   THEN Insert(h, char, 2, FALSE)
                   ELSE PopEvent(h, 2, FALSE)
         ELSE PopEvent(h, 1, TRUE)
    ELSE IF char \in {ARROW_RIGHT, ARROW_LEFT}
            /\ (h.escape_buffer # <<>> \/ h.last_was_escape)
         THEN PopEvent([h EXCEPT !.last_was_escape = FALSE], 1, FALSE)
         ELSE Insert(h, char, 1, FALSE)

\* RawInputHandler.get_event on the bytes `in` that stdin holds.
get_event(h, in) ==
    IF ~h.enabled \/ ~h.started
    THEN Result(h, 0, NoEvent, FALSE)
    ELSE IF h.escape_buffer # <<>>
    THEN ContinueEscape(h, in)
    ELSE IF in = <<>>
    THEN Result(h, 0, NoEvent, FALSE)
    ELSE IF in[1] = EOF
    THEN Result(h, 0, Raised, FALSE)
    ELSE LET char == in[1] IN
         CASE char = CTRL_C ->
                PopEvent(Emit(h, Event("INTERRUPT", <<>>, 0)), 1, FALSE)
           [] char = CTRL_D ->
                PopEvent(Emit(h, Event("EXIT", <<>>, 0)), 1, FALSE)
           [] char \in {CR, LF} ->
                PopEvent(Enter(h), 1, FALSE)
           [] char \in {DEL, BS} ->
                PopEvent(Backspace(h), 1, FALSE)
           [] char = ESC ->
                LET e == Escape(h, in) IN PopEvent(e.h, e.n, FALSE)
           [] OTHER ->
                IF char >= 32
                THEN Printable(h, in)
                ELSE PopEvent(h, 1, FALSE)

\* ------------------------------------------------------------------------
\* cli/renderer.py
\* ------------------------------------------------------------------------
\* StreamingRenderer.__init__.  cur is the state of self._thread ("dead"
\* when there is none or it has ended, "loop" at the head of _stream_loop,
\* "fin" just before its final _complete.set()); oldLoop and oldFin count
\* earlier reveal threads that outlived their join.
StreamingRendererInit ==
    [full_text   |-> <<>>,
     current_pos |-> 0,
     running     |-> FALSE,
     complete    |-> FALSE,
     cur         |-> "dead",
     oldLoop     |-> 0,
     oldFin      |-> 0]

\* StreamingRenderer.stop without the assignment to _current_pos (line 147).
stop_KeepsPos(r) ==
    LET r1 == [r EXCEPT !.running = FALSE]
        done(x) == [x EXCEPT !.complete = TRUE]
    IN IF r.cur = "dead"
       THEN {done(r1)}
       ELSE {done([r1 EXCEPT !.cur = "dead"]), done(r1)}

\* StreamingRenderer.stop: the outcomes of the call.  join(timeout=0.1)
\* either sees the thread end (it finds _running cleared and sets
\* _complete) or times out and leaves it alive.
stop(r) ==
    LET r1 == [r EXCEPT !.running = FALSE]
        done(x) == [x EXCEPT !.current_pos = Len(x.full_text),
                             !.complete = TRUE]
    IN IF r.cur = "dead"
       THEN {done(r1)}
       ELSE {done([r1 EXCEPT !.cur = "dead"]), done(r1)}

\* StreamingRenderer.skip
skip(r) == stop(r)

\* StreamingRenderer.start_stream: the outcomes of the call.
start_stream(r, text) ==
    { [x EXCEPT !.full_text = text,
                !.current_pos = 0,
                !.complete = FALSE,
                !.running = TRUE,
                !.cur = "loop",
                !.oldLoop = IF x.cur = "loop" THEN @ + 1 ELSE @,
                !.oldFin = IF x.cur = "fin" THEN @ + 1 ELSE @]
      : x \in stop(r) }

\* The loop test without the end-of-text test of line 158.
StreamLoops_NoEnd(r) == r.running

\* One pass of the while loop of _stream_loop: TRUE when the thread goes on
\* looping, FALSE when it leaves the loop.
StreamLoops(r) == r.running /\ r.current_pos < Len(r.full_text)

StreamAdvance(r) ==
    IF StreamLoops(r) THEN [r EXCEPT !.current_pos = @ + 1] ELSE r

\* ------------------------------------------------------------------------
\* cli/__init__.py (the same code is at the end of cli/app.py)
\* ------------------------------------------------------------------------
\* The module globals, and the speak_threaded threads by their position:
\* `speaking` are inside speak(text); `finishing` have run
\* set_is_speaking(False) in the finally block and have set_app_state("IDLE")
\* left to do, counted by how their speak call ended.
LegacyInit ==
    [is_speaking |-> FALSE,
     APP_STATE   |-> "IDLE",
     speaking    |-> 0,
     finishing   |-> [return |-> 0, raise |-> 0]]

\* set_is_speaking / set_app_state
set_is_speaking(g, value) == [g EXCEPT !.is_speaking = value]
set_app_state(g, new_state) == [g EXCEPT !.APP_STATE = new_state]

\* speak_threaded: the flag is set, then the thread is started.
speak_threaded(g) ==
    [set_is_speaking(g, TRUE) EXCEPT !.speaking = @ + 1]

\* _speak_task with "except: return" in place of "finally": a speak call
\* that raises ends its thread at once.
speak_task_NoFinally(g, how) ==
    IF how = "raise"
    THEN [g EXCEPT !.speaking = @ - 1]
    ELSE [set_is_speaking(g, FALSE) EXCEPT !.speaking = @ - 1,
                                           !.finishing[how] = @ + 1]

\* _speak_task when speak(text) ends, by returning or by raising: the
\* first statement of the finally block.
speak_task(g, how) ==
    [set_is_speaking(g, FALSE) EXCEPT !.speaking = @ - 1,
                                      !.finishing[how] = @ + 1]

\* _speak_task: the second statement of the finally block; the thread ends.
speak_task_end(g, how) ==
    [set_app_state(g, "IDLE") EXCEPT !.finishing[how] = @ - 1]

\* ------------------------------------------------------------------------
\* cli/app.py
\* ------------------------------------------------------------------------
\* max_events of _process_input
MaxEvents == 10
\* AppConfig.max_history
MaxConv == 50

\* Bytes the user types at the orchestrator: 'a', Enter, Ctrl-C, Ctrl-D
Keys == {97, CR, CTRL_C, CTRL_D}
\* Number of bytes typed in one run
MaxTyped == 4

\* The fallback ask_brain: the answer names the prompt ("R" + prompt).
ask_brain(prompt) == <<82>> \o prompt

\* The exceptions ask_brain raises, by the branch of _brain_worker that
\* words the message, and the message passed to set_error.
BrainErrors == {"Connection", "Blank"}
BrainErrorMessage(e) ==
    CASE e = "Connection" ->
            "Neural link error: Cannot connect to Ollama. Is it running?"
      [] e = "Empty" -> "Neural link error: Model returned empty response"
      [] e = "Blank" -> "Neural link error: Connection failed"
      [] OTHER -> "Neural link error: error text"

\* The exceptions of speak and the message of _speak_worker.
SpeakErrors == {"DeviceNotFound"}
SpeakErrorMessage(e) ==
    CASE e = "DeviceNotFound" -> "Audio Error: Device not found. Check power?"
      [] e = "Blank" -> "Audio Error: Device unreachable"
      [] OTHER -> "Audio Error: error text"

\* A coroutine of the event loop: what it does next, the submission it
\* belongs to, its text argument and the exception it resumes with.
Task(k, id, text, exc) == [k |-> k, id |-> id, text |-> text, exc |-> exc]

\* deque(maxlen=max_history).append
ConvAppend(c, role, content) ==
    LET a == Append(c, <<role, content>>)
    IN IF Len(a) > MaxConv THEN Tail(a) ELSE a

Bytes(in) == [i \in 1..Len(in) |-> in[i].b]

\* _process_state with the THINKING branch enabling the handler.
process_state_Busy(m, h) ==
    CASE m.state = "IDLE"     -> [m |-> m, h |-> enable(h)]
      [] m.state = "THINKING" -> [m |-> m, h |-> enable(h)]
      [] m.state = "TALKING"  -> [m |-> m, h |-> disable(h)]
      [] m.state = "ERROR"    ->
            [m |-> IF m.duration > ErrorTimeout
                   THEN force_state(m, "IDLE") ELSE m,
             h |-> enable(h)]

\* CLIApp._process_state: the manager and the input handler afterwards.
process_state(m, h) ==
    CASE m.state = "IDLE"     -> [m |-> m, h |-> enable(h)]
      [] m.state = "THINKING" -> [m |-> m, h |-> disable(h)]
      [] m.state = "TALKING"  -> [m |-> m, h |-> disable(h)]
      [] m.state = "ERROR"    ->
            [m |-> IF m.duration > ErrorTimeout
                   THEN force_state(m, "IDLE") ELSE m,
             h |-> enable(h)]

\* No event handled yet in this frame.
NoneSeen == [type |-> "NONE", phase |-> "IDLE"]

Init ==
    /\ sm = StateManagerInit
    /\ last = [op |-> "none", arg |-> None, ret |-> None,
               pre |-> StateManagerInit]
    /\ ih = RawInputHandlerInit
    /\ stdin = <<>>
    /\ typed = 0
    /\ rd = StreamingRendererInit
    /\ stopEvent = FALSE
    /\ running = TRUE
    /\ pc = "start"
    /\ evCount = 0
    /\ conv = <<>>
    /\ queue = <<>>
    /\ current_input = <<>>
    /\ ready = <<>>
    /\ mustRun = 0
    /\ timers = {}
    /\ thinkCalls = {}
    /\ speakCalls = {}
    /\ nextId = 0
    /\ applied = <<>>
    /\ lastEv = NoneSeen
    /\ legacy = LegacyInit
    /\ threads = ThreadsInit

\* --- the environment -----------------------------------------------------
\* The user presses a key.
UserType ==
    \E b \in Keys :
        /\ typed < MaxTyped
        /\ pc # "done"
        /\ stdin' = Append(stdin, [b |-> b, ph |-> sm.state])
        /\ typed' = typed + 1
        /\ UNCHANGED <<threads, legacy, sm, last, ih, rd, stopEvent, running, pc, evCount,
                       conv, queue, current_input, ready, mustRun, timers,
                       thinkCalls, speakCalls, nextId, applied, lastEv>>

\* Time passes.  The orchestrator reads the clock only in ERROR
\* (_process_state), and ERROR is entered only through transition_to, which
\* restarts the duration; seconds spent in the other phases are not counted.
Clock ==
    /\ sm.duration < DurationCap
    /\ sm.state = "ERROR"
    /\ pc # "done"
    /\ sm' = AdvanceDuration(sm)
    /\ UNCHANGED <<threads, legacy, last, ih, stdin, typed, rd, stopEvent, running, pc,
                   evCount, conv, queue, current_input, ready, mustRun,
                   timers, thinkCalls, speakCalls, nextId, applied, lastEv>>

\* --- _run_main_loop ------------------------------------------------------
\* The frame was faster than the refresh interval: asyncio.sleep suspends
\* the main coroutine, and every task that is ready now runs before it
\* resumes.  The first iteration ("start") always sleeps: last_frame was
\* taken just before the loop.
LoopSleep ==
    /\ pc \in {"start", "top"}
    /\ running
    /\ pc' = "sleep"
    /\ mustRun' = Len(ready)
    /\ UNCHANGED <<threads, legacy, sm, last, ih, stdin, typed, rd, stopEvent, running,
                   evCount, conv, queue, current_input, ready, timers,
                   thinkCalls, speakCalls, nextId, applied, lastEv>>

\* The frame starts (after the sleep, or at once when the last frame took
\* longer than the refresh interval): _process_state.
LoopFrame ==
    /\ \/ pc = "sleep" /\ mustRun = 0
       \/ pc = "top" /\ running
    /\ LET r == process_state(sm, ih) IN
       /\ sm' = r.m
       /\ ih' = r.h
    /\ pc' = "input"
    /\ evCount' = 0
    /\ lastEv' = NoneSeen
    /\ UNCHANGED <<threads, legacy, last, stdin, typed, rd, stopEvent, running, conv, queue,
                   current_input, ready, mustRun, timers, thinkCalls,
                   speakCalls, nextId, applied>>

\* while self.running fails: the loop ends and the handler is stopped.
LoopExit ==
    /\ pc = "top"
    /\ ~running
    /\ pc' = "done"
    /\ ih' = stop_handler(ih)
    /\ UNCHANGED <<threads, legacy, sm, last, stdin, typed, rd, stopEvent, running, evCount,
                   conv, queue, current_input, ready, mustRun, timers,
                   thinkCalls, speakCalls, nextId, applied, lastEv>>

\* --- _process_input ------------------------------------------------------
\* Line 329 with the test dropped: every TEXT event starts a turn.
TextDismissesError_Never(m) == FALSE

\* Line 329: a TEXT event in ERROR only dismisses the error.
TextDismissesError(m) == m.state = "ERROR"

\* Line 312: Ctrl-C cancels unless the lifecycle is IDLE.
InterruptCancels(m) == m.state # "IDLE"

\* Leaving the while loop: line 336, then on to _process_responses.
EndInput(h) ==
    /\ current_input' = h.input_buffer
    /\ pc' = "responses"

\* One pass of the while loop of _process_input.
ProcessInput ==
    /\ pc = "input"
    /\ IF evCount >= MaxEvents
       THEN /\ EndInput(ih)
            /\ UNCHANGED <<sm, ih, stdin, rd, stopEvent, running, evCount,
                           ready, nextId, lastEv>>
       ELSE
       LET r == get_event(ih, Bytes(stdin))
           rest == SubSeq(stdin, r.n + 1, Len(stdin))
           seen == [type |-> r.ev.type, phase |-> sm.state]
       IN
       /\ stdin' = rest
       /\ CASE r.ev.type = "NONE" ->
                 /\ ih' = r.h
                 /\ EndInput(r.h)
                 /\ UNCHANGED <<sm, rd, stopEvent, running, evCount, ready,
                                nextId, lastEv>>
            [] r.ev.type = "EXIT" ->
                 /\ ih' = r.h
                 /\ running' = FALSE
                 /\ evCount' = evCount + 1
                 /\ lastEv' = seen
                 /\ EndInput(r.h)
                 /\ UNCHANGED <<sm, rd, stopEvent, ready, nextId>>
            [] r.ev.type = "INTERRUPT" ->
                 IF InterruptCancels(sm)
                 THEN /\ stopEvent' = IF sm.state = "TALKING"
                                      THEN TRUE ELSE stopEvent
                      /\ \E x \in skip(rd) : rd' = x
                      /\ sm' = set_speaking_text(force_state(sm, "IDLE"),
                                                 NoText)
                      /\ ih' = clear_buffer(r.h)
                      /\ current_input' = <<>>
                      /\ evCount' = evCount + 1
                      /\ lastEv' = seen
                      /\ UNCHANGED <<running, pc, ready, nextId>>
                 ELSE /\ ih' = r.h
                      /\ running' = FALSE
                      /\ evCount' = evCount + 1
                      /\ lastEv' = seen
                      /\ EndInput(r.h)
                      /\ UNCHANGED <<sm, rd, stopEvent, ready, nextId>>
            [] r.ev.type = "TEXT" ->
                 /\ ih' = clear_buffer(r.h)
                 /\ evCount' = evCount + 1
                 /\ lastEv' = seen
                 /\ IF TextDismissesError(sm)
                    THEN /\ sm' = force_state(sm, "IDLE")
                         /\ UNCHANGED <<ready, nextId>>
                    ELSE /\ ready' = Append(ready,
                                Task("handle", nextId, r.ev.text, None))
                         /\ nextId' = nextId + 1
                         /\ UNCHANGED sm
                 /\ UNCHANGED <<rd, stopEvent, running, pc, current_input>>
            [] OTHER ->
                 /\ ih' = r.h
                 /\ evCount' = evCount + 1
                 /\ lastEv' = seen
                 /\ UNCHANGED <<sm, rd, stopEvent, running, pc,
                                current_input, ready, nextId>>
    /\ UNCHANGED <<threads, legacy, last, typed, conv, queue, mustRun, timers, thinkCalls,
                   speakCalls, applied>>

\* --- _process_responses --------------------------------------------------
\* A result is taken whatever the lifecycle phase is.
ProcessResponses ==
    /\ pc = "responses"
    /\ pc' = "top"
    /\ IF queue = <<>>
       THEN UNCHANGED <<sm, rd, conv, queue, ready, applied>>
       ELSE LET res == Head(queue) IN
            /\ queue' = Tail(queue)
            /\ conv' = ConvAppend(conv, "ai", res.text)
            /\ \E x \in start_stream(rd, res.text) : rd' = x
            /\ sm' = transition_to(sm, "TALKING").m
            /\ ready' = Append(ready, Task("speak", res.id, res.text, None))
            /\ applied' = Append(applied, res.id)
    /\ lastEv' = NoneSeen
    /\ UNCHANGED <<threads, legacy, last, ih, stdin, typed, stopEvent, running, evCount,
                   current_input, mustRun, timers, thinkCalls, speakCalls,
                   nextId>>

\* --- coroutines run by the event loop while the main loop sleeps ---------
\* _handle_user_input
HandleUserInput(t) ==
    /\ conv' = ConvAppend(conv, "user", t.text)
    /\ sm' = transition_to(sm, "THINKING").m
    /\ ready' = Append(Tail(ready), Task("brain", t.id, t.text, None))
    /\ UNCHANGED <<queue, timers, thinkCalls, speakCalls, stopEvent>>

\* _brain_worker up to run_in_executor
BrainStart(t) ==
    /\ thinkCalls' = thinkCalls \cup {[id |-> t.id, text |-> t.text]}
    /\ ready' = Tail(ready)
    /\ UNCHANGED <<sm, conv, queue, timers, speakCalls, stopEvent>>

\* _brain_worker after ask_brain returned: response_queue.put
BrainDone(t) ==
    /\ queue' = Append(queue, [id |-> t.id, text |-> t.text])
    /\ ready' = Tail(ready)
    /\ UNCHANGED <<sm, conv, timers, thinkCalls, speakCalls, stopEvent>>

\* _brain_worker after ask_brain raised: the except branch
BrainFail(t) ==
    /\ sm' = set_error(sm, BrainErrorMessage(t.exc)).m
    /\ ready' = Tail(ready)
    /\ UNCHANGED <<conv, queue, timers, thinkCalls, speakCalls, stopEvent>>

\* _speak_worker up to run_in_executor; speak() clears the stop event.
SpeakStart(t) ==
    /\ sm' = set_speaking_text(sm, SomeText(t.text))
    /\ speakCalls' = speakCalls \cup {[id |-> t.id, text |-> t.text]}
    /\ stopEvent' = FALSE
    /\ ready' = Tail(ready)
    /\ UNCHANGED <<conv, queue, timers, thinkCalls>>

\* The finally block without the force_state(IDLE) of line 435.
SpeakFinally_NoForce(t, m) ==
    LET m1 == set_speaking_text(m, NoText) IN
    IF rd.complete
    THEN /\ sm' = m1
         /\ UNCHANGED timers
    ELSE /\ sm' = m1
         /\ timers' = timers \cup {Task("speak_wait", t.id, t.text, None)}

\* The finally block of _speak_worker, entered with manager m: the wait
\* loop either finds the reveal complete and forces IDLE, or sleeps 0.1 s.
SpeakFinally(t, m) ==
    LET m1 == set_speaking_text(m, NoText) IN
    IF rd.complete
    THEN /\ sm' = force_state(m1, "IDLE")
         /\ UNCHANGED timers
    ELSE /\ sm' = m1
         /\ timers' = timers \cup {Task("speak_wait", t.id, t.text, None)}

\* _speak_worker after speak returned
SpeakDone(t) ==
    /\ SpeakFinally(t, sm)
    /\ ready' = Tail(ready)
    /\ UNCHANGED <<conv, queue, thinkCalls, speakCalls, stopEvent>>

\* _speak_worker after speak raised: the except branch, then finally
SpeakFail(t) ==
    /\ SpeakFinally(t, set_error(sm, SpeakErrorMessage(t.exc)).m)
    /\ ready' = Tail(ready)
    /\ UNCHANGED <<conv, queue, thinkCalls, speakCalls, stopEvent>>

\* _speak_worker resumed from asyncio.sleep(0.1) in the wait loop
SpeakWait(t) ==
    /\ IF rd.complete
       THEN /\ sm' = force_state(sm, "IDLE")
            /\ UNCHANGED timers
       ELSE /\ timers' = timers \cup {t}
            /\ UNCHANGED sm
    /\ ready' = Tail(ready)
    /\ UNCHANGED <<conv, queue, thinkCalls, speakCalls, stopEvent>>

\* The event loop runs the first ready coroutine up to its next await.
RunTask ==
    /\ pc = "sleep"
    /\ ready # <<>>
    /\ LET t == Head(ready) IN
       CASE t.k = "handle"      -> HandleUserInput(t)
         [] t.k = "brain"       -> BrainStart(t)
         [] t.k = "brain_done"  -> BrainDone(t)
         [] t.k = "brain_fail"  -> BrainFail(t)
         [] t.k = "speak"       -> SpeakStart(t)
         [] t.k = "speak_done"  -> SpeakDone(t)
         [] t.k = "speak_fail"  -> SpeakFail(t)
         [] t.k = "speak_wait"  -> SpeakWait(t)
    /\ mustRun' = IF mustRun > 0 THEN mustRun - 1 ELSE 0
    /\ UNCHANGED <<threads, legacy, last, ih, stdin, typed, rd, running, pc, evCount,
                   current_input, nextId, applied, lastEv>>

\* asyncio.sleep(0.1) of a waiting _speak_worker is over.
TimerFire ==
    \E t \in timers :
        /\ pc # "done"
        /\ timers' = timers \ {t}
        /\ ready' = Append(ready, t)
        /\ UNCHANGED <<threads, legacy, sm, last, ih, stdin, typed, rd, stopEvent, running,
                       pc, evCount, conv, queue, current_input, mustRun,
                       thinkCalls, speakCalls, nextId, applied, lastEv>>

\* --- the executor threads ------------------------------------------------
\* ask_brain returns its answer.
ThinkReturn ==
    \E c \in thinkCalls :
        /\ pc # "done"
        /\ thinkCalls' = thinkCalls \ {c}
        /\ ready' = Append(ready,
                           Task("brain_done", c.id, ask_brain(c.text), None))
        /\ UNCHANGED <<threads, legacy, sm, last, ih, stdin, typed, rd, stopEvent, running,
                       pc, evCount, conv, queue, current_input, mustRun,
                       timers, speakCalls, nextId, applied, lastEv>>

\* ask_brain raises.
ThinkRaise ==
    \E c \in thinkCalls : \E e \in BrainErrors :
        /\ pc # "done"
        /\ thinkCalls' = thinkCalls \ {c}
        /\ ready' = Append(ready, Task("brain_fail", c.id, c.text, e))
        /\ UNCHANGED <<threads, legacy, sm, last, ih, stdin, typed, rd, stopEvent, running,
                       pc, evCount, conv, queue, current_input, mustRun,
                       timers, speakCalls, nextId, applied, lastEv>>

\* speak returns (playback over, or stopped).
SpeakReturn ==
    \E c \in speakCalls :
        /\ pc # "done"
        /\ speakCalls' = speakCalls \ {c}
        /\ ready' = Append(ready, Task("speak_done", c.id, c.text, None))
        /\ UNCHANGED <<threads, legacy, sm, last, ih, stdin, typed, rd, stopEvent, running,
                       pc, evCount, conv, queue, current_input, mustRun,
                       timers, thinkCalls, nextId, applied, lastEv>>

\* speak raises.
SpeakRaise ==
    \E c \in speakCalls : \E e \in SpeakErrors :
        /\ pc # "done"
        /\ speakCalls' = speakCalls \ {c}
        /\ ready' = Append(ready, Task("speak_fail", c.id, c.text, e))
        /\ UNCHANGED <<threads, legacy, sm, last, ih, stdin, typed, rd, stopEvent, running,
                       pc, evCount, conv, queue, current_input, mustRun,
                       timers, thinkCalls, nextId, applied, lastEv>>

\* --- the reveal threads --------------------------------------------------
\* self._thread runs one pass of the while loop of _stream_loop.
StreamLoop ==
    /\ rd.cur = "loop"
    /\ pc # "done"
    /\ rd' = IF StreamLoops(rd) THEN StreamAdvance(rd)
             ELSE [rd EXCEPT !.cur = "fin"]
    /\ UNCHANGED <<threads, legacy, sm, last, ih, stdin, typed, stopEvent, running, pc,
                   evCount, conv, queue, current_input, ready, mustRun,
                   timers, thinkCalls, speakCalls, nextId, applied, lastEv>>

\* self._thread sets _complete and ends.
StreamFinish ==
    /\ rd.cur = "fin"
    /\ pc # "done"
    /\ rd' = [rd EXCEPT !.complete = TRUE, !.cur = "dead"]
    /\ UNCHANGED <<threads, legacy, sm, last, ih, stdin, typed, stopEvent, running, pc,
                   evCount, conv, queue, current_input, ready, mustRun,
                   timers, thinkCalls, speakCalls, nextId, applied, lastEv>>

\* A reveal thread that outlived its join runs one pass of the loop.
OldStreamLoop ==
    /\ rd.oldLoop > 0
    /\ pc # "done"
    /\ rd' = IF StreamLoops(rd) THEN StreamAdvance(rd)
             ELSE [rd EXCEPT !.oldLoop = @ - 1, !.oldFin = @ + 1]
    /\ UNCHANGED <<threads, legacy, sm, last, ih, stdin, typed, stopEvent, running, pc,
                   evCount, conv, queue, current_input, ready, mustRun,
                   timers, thinkCalls, speakCalls, nextId, applied, lastEv>>

\* A reveal thread that outlived its join sets _complete and ends.
OldStreamFinish ==
    /\ rd.oldFin > 0
    /\ pc # "done"
    /\ rd' = [rd EXCEPT !.complete = TRUE, !.oldFin = @ - 1]
    /\ UNCHANGED <<threads, legacy, sm, last, ih, stdin, typed, stopEvent, running, pc,
                   evCount, conv, queue, current_input, ready, mustRun,
                   timers, thinkCalls, speakCalls, nextId, applied, lastEv>>

Next ==
    \/ UserType
    \/ Clock
    \/ LoopSleep
    \/ LoopFrame
    \/ LoopExit
    \/ ProcessInput
    \/ ProcessResponses
    \/ RunTask
    \/ TimerFire
    \/ ThinkReturn
    \/ ThinkRaise
    \/ SpeakReturn
    \/ SpeakRaise
    \/ StreamLoop
    \/ StreamFinish
    \/ OldStreamLoop
    \/ OldStreamFinish

Spec == Init /\ [][Next]_vars

\* Every step of a scheduled action changes one of these: the position of
\* the main loop, the coroutines and calls under way, the reveal, the clock.
schedvars ==
    <<pc, evCount, ready, timers, thinkCalls, speakCalls, rd, sm.duration>>

\* The scheduling the application relies on: the executor calls return,
\* the reveal threads run, sleeping coroutines wake up, time passes, the
\* event loop runs the ready coroutines while the main loop sleeps, and
\* the main loop goes on and sleeps again and again (frames do not overrun
\* forever).  Nothing is assumed about the user.
Fairness ==
    /\ SF_schedvars(LoopSleep)
    /\ WF_schedvars(LoopFrame)
    /\ WF_schedvars(LoopExit)
    /\ WF_schedvars(ProcessInput)
    /\ WF_schedvars(ProcessResponses)
    /\ WF_schedvars(RunTask)
    /\ WF_schedvars(TimerFire)
    /\ WF_schedvars(Clock)
    /\ WF_schedvars(ThinkReturn \/ ThinkRaise)
    /\ WF_schedvars(SpeakReturn \/ SpeakRaise)
    /\ WF_schedvars(StreamLoop)
    /\ WF_schedvars(StreamFinish)
    /\ WF_schedvars(OldStreamLoop)
    /\ WF_schedvars(OldStreamFinish)

\* The user of the fair specification types at most MaxLiveTyped keys:
\* one-character lines, each followed by Enter, and Ctrl-D in the place of
\* any of them.  (Ctrl-C is only read in IDLE, where it quits as Ctrl-D
\* does, and in ERROR, where it dismisses the error as a submitted line
\* does.)
MaxLiveTyped == 4
LiveKeys == {97, CR, CTRL_D}

UserTypeLive ==
    /\ typed < MaxLiveTyped
    /\ UserType
    /\ stdin'[Len(stdin')].b \in LiveKeys
    /\ stdin'[Len(stdin')].b = 97 => typed % 2 = 0
    /\ stdin'[Len(stdin')].b = CR => typed % 2 = 1

NextFair ==
    \/ UserTypeLive
    \/ Clock
    \/ LoopSleep
    \/ LoopFrame
    \/ LoopExit
    \/ ProcessInput
    \/ ProcessResponses
    \/ RunTask
    \/ TimerFire
    \/ ThinkReturn
    \/ ThinkRaise
    \/ SpeakReturn
    \/ SpeakRaise
    \/ StreamLoop
    \/ StreamFinish
    \/ OldStreamLoop
    \/ OldStreamFinish

SpecFair == Init /\ [][NextFair]_vars /\ Fairness

\* ------------------------------------------------------------------------
\* A driver that calls the StateManager API freely (as the unit tests do).
\* ------------------------------------------------------------------------
InitSM == Init

CallTransitionTo ==
    \E to \in AppState :
        LET r == transition_to(sm, to) IN
        /\ Len(r.m.history) <= MaxHist
        /\ sm' = r.m
        /\ last' = [op |-> "transition_to", arg |-> to, ret |-> r.ret,
                    pre |-> sm]
        /\ UNCHANGED appvars

CallSetError ==
    \E msg \in Messages :
        LET r == set_error(sm, msg) IN
        /\ Len(r.m.history) <= MaxHist
        /\ sm' = r.m
        /\ last' = [op |-> "set_error", arg |-> msg, ret |-> r.ret,
                    pre |-> sm]
        /\ UNCHANGED appvars

CallForceState ==
    \E to \in AppState :
        /\ sm' = force_state(sm, to)
        /\ last' = [op |-> "force_state", arg |-> to, ret |-> None,
                    pre |-> sm]
        /\ UNCHANGED appvars

ClockSM ==
    /\ sm.duration < DurationCap
    /\ sm' = AdvanceDuration(sm)
    /\ UNCHANGED <<last, appvars>>

NextSM ==
    \/ CallTransitionTo
    \/ CallSetError
    \/ CallForceState
    \/ ClockSM

SpecSM == InitSM /\ [][NextSM]_vars

\* ------------------------------------------------------------------------
\* A driver of the observer registry (as tests/test_state.py drives it):
\* observers are added and removed between state changes.
\* ------------------------------------------------------------------------
\* A call of the driver: as `last` above, with the observer calls it made.
ObsCall(op, arg, ret, calls) ==
    [op |-> op, arg |-> arg, ret |-> ret, pre |-> sm, calls |-> calls]

InitObs ==
    /\ sm = StateManagerInit
    /\ last = [op |-> "none", arg |-> None, ret |-> None,
               pre |-> StateManagerInit, calls |-> <<>>]
    /\ ih = RawInputHandlerInit
    /\ stdin = <<>>
    /\ typed = 0
    /\ rd = StreamingRendererInit
    /\ stopEvent = FALSE
    /\ running = TRUE
    /\ pc = "top"
    /\ evCount = 0
    /\ conv = <<>>
    /\ queue = <<>>
    /\ current_input = <<>>
    /\ ready = <<>>
    /\ mustRun = 0
    /\ timers = {}
    /\ thinkCalls = {}
    /\ speakCalls = {}
    /\ nextId = 0
    /\ applied = <<>>
    /\ lastEv = NoneSeen
    /\ legacy = LegacyInit
    /\ threads = ThreadsInit

CallAddObserver ==
    \E o \in Observers :
        /\ Len(sm.observers) < MaxObservers
        /\ sm' = add_observer(sm, o)
        /\ last' = ObsCall("add_observer", o, None, <<>>)
        /\ UNCHANGED appvars

CallRemoveObserver ==
    \E o \in Observers :
        /\ sm' = remove_observer(sm, o)
        /\ last' = ObsCall("remove_observer", o, None, <<>>)
        /\ UNCHANGED appvars

ObsTransitionTo ==
    \E to \in AppState :
        LET r == transition_to(sm, to) IN
        /\ Len(r.m.history) <= MaxHist
        /\ sm' = r.m
        /\ last' = ObsCall("transition_to", to, r.ret, r.calls)
        /\ UNCHANGED appvars

ObsForceState ==
    \E to \in AppState :
        /\ sm' = force_state(sm, to)
        /\ last' = ObsCall("force_state", to, None,
                           force_state_calls(sm, to))
        /\ UNCHANGED appvars

NextObs ==
    \/ CallAddObserver
    \/ CallRemoveObserver
    \/ ObsTransitionTo
    \/ ObsForceState

SpecObs == InitObs /\ [][NextObs]_vars

\* ------------------------------------------------------------------------
\* A driver of the StreamingRenderer alone: streams are started and skipped
\* while the reveal threads run.
\* ------------------------------------------------------------------------
\* Texts handed to start_stream.
StreamTexts == {<<82>>, <<82, 97>>}

\* StreamingRenderer.current_text
current_text(r) == SubSeq(r.full_text, 1, r.current_pos)

\* The renderer calls made so far: the last operation, the streams started,
\* the skip() calls made in a row and the renderer before the first of
\* them.
InitRd ==
    /\ last = [op |-> "none", streams |-> 0, skips |-> 0,
               pre |-> StreamingRendererInit]
    /\ sm = StateManagerInit
    /\ ih = RawInputHandlerInit
    /\ stdin = <<>>
    /\ typed = 0
    /\ rd = StreamingRendererInit
    /\ stopEvent = FALSE
    /\ running = TRUE
    /\ pc = "top"
    /\ evCount = 0
    /\ conv = <<>>
    /\ queue = <<>>
    /\ current_input = <<>>
    /\ ready = <<>>
    /\ mustRun = 0
    /\ timers = {}
    /\ thinkCalls = {}
    /\ speakCalls = {}
    /\ nextId = 0
    /\ applied = <<>>
    /\ lastEv = NoneSeen
    /\ legacy = LegacyInit
    /\ threads = ThreadsInit

rdRest ==
    <<sm, ih, stdin, typed, stopEvent, running, pc, evCount, conv, queue,
      current_input, ready, mustRun, timers, thinkCalls, speakCalls, nextId,
      applied, lastEv, legacy, threads>>

CallStartStream ==
    \E text \in StreamTexts :
        /\ last.streams < MaxStreams
        /\ \E x \in start_stream(rd, text) : rd' = x
        /\ last' = [op |-> "start_stream", streams |-> last.streams + 1,
                    skips |-> 0, pre |-> rd]
        /\ UNCHANGED rdRest

CallSkip ==
    /\ \E x \in skip(rd) : rd' = x
    /\ last' = [op |-> "skip", streams |-> last.streams,
                skips |-> IF last.skips < MaxSkips
                          THEN last.skips + 1 ELSE MaxSkips,
                pre |-> IF last.op = "skip" THEN last.pre ELSE rd]
    /\ UNCHANGED rdRest

NextRd ==
    \/ CallStartStream
    \/ CallSkip
    \/ StreamLoop
    \/ StreamFinish
    \/ OldStreamLoop
    \/ OldStreamFinish

SpecRd == InitRd /\ [][NextRd]_vars

\* ------------------------------------------------------------------------
\* A driver of the deprecated speak_threaded (as tests/test_threading.py
\* drives it): calls are made while earlier speak threads still run.
\* ------------------------------------------------------------------------
\* The last step: its kind, the number of speak_threaded calls so far, how
\* the speak call of the thread that took the step ended, and the globals
\* before the step.
LegacyStep(op, calls, how) ==
    [op |-> op, calls |-> calls, how |-> how, pre |-> legacy]

InitLegacy ==
    /\ last = [op |-> "none", calls |-> 0, how |-> None, pre |-> LegacyInit]
    /\ sm = StateManagerInit
    /\ ih = RawInputHandlerInit
    /\ stdin = <<>>
    /\ typed = 0
    /\ rd = StreamingRendererInit
    /\ stopEvent = FALSE
    /\ running = TRUE
    /\ pc = "top"
    /\ evCount = 0
    /\ conv = <<>>
    /\ queue = <<>>
    /\ current_input = <<>>
    /\ ready = <<>>
    /\ mustRun = 0
    /\ timers = {}
    /\ thinkCalls = {}
    /\ speakCalls = {}
    /\ nextId = 0
    /\ applied = <<>>
    /\ lastEv = NoneSeen
    /\ legacy = LegacyInit
    /\ threads = ThreadsInit

legacyRest ==
    <<sm, ih, stdin, typed, rd, stopEvent, running, pc, evCount, conv,
      queue, current_input, ready, mustRun, timers, thinkCalls, speakCalls,
      nextId, applied, lastEv, threads>>

\* The caller (the old main loop) announces a phase.
CallSetAppState ==
    \E s \in {"THINKING", "TALKING"} :
        /\ legacy' = set_app_state(legacy, s)
        /\ last' = LegacyStep("set_app_state", last.calls, None)
        /\ UNCHANGED legacyRest

\* The caller resets the flag (as the test does before it starts).
CallSetIsSpeaking ==
    /\ legacy' = set_is_speaking(legacy, FALSE)
    /\ last' = LegacyStep("set_is_speaking", last.calls, None)
    /\ UNCHANGED legacyRest

CallSpeakThreaded ==
    /\ last.calls < MaxSpeaks
    /\ legacy' = speak_threaded(legacy)
    /\ last' = LegacyStep("speak_threaded", last.calls + 1, None)
    /\ UNCHANGED legacyRest

\* speak(text) of one thread returns or raises.
SpeakTask ==
    \E how \in {"return", "raise"} :
        /\ legacy.speaking > 0
        /\ legacy' = speak_task(legacy, how)
        /\ last' = LegacyStep("speak_task", last.calls, how)
        /\ UNCHANGED legacyRest

\* A thread finishes its finally block.
SpeakTaskEnd ==
    \E how \in {"return", "raise"} :
        /\ legacy.finishing[how] > 0
        /\ legacy' = speak_task_end(legacy, how)
        /\ last' = LegacyStep("speak_task_end", last.calls, how)
        /\ UNCHANGED legacyRest

NextLegacy ==
    \/ CallSetAppState
    \/ CallSetIsSpeaking
    \/ CallSpeakThreaded
    \/ SpeakTask
    \/ SpeakTaskEnd

SpecLegacy == InitLegacy /\ [][NextLegacy]_vars

\* ------------------------------------------------------------------------
\* Threads calling transition_to and reading state at the same time (as
\* test_thread_safety_concurrent_transitions and
\* test_thread_safety_state_access do).
\* ------------------------------------------------------------------------
InitThreads == Init

threadsRest ==
    <<last, ih, stdin, typed, rd, stopEvent, running, pc, evCount, conv,
      queue, current_input, ready, mustRun, timers, thinkCalls, speakCalls,
      nextId, applied, lastEv, legacy>>

ThreadCalls ==
    \E i \in Threads :
        /\ threads.t[i].pc = "out"
        /\ threads.calls < MaxThreadCalls
        /\ \/ \E to \in AppState :
                 threads' = ThreadCall(threads, i, "transition_to", to)
           \/ threads' = ThreadCall(threads, i, "state", None)
        /\ UNCHANGED <<sm, threadsRest>>

ThreadEnters ==
    \E i \in Threads :
        /\ threads.t[i].pc = "with"
        /\ LockFree(threads)
        /\ threads' = ThreadEnter(threads, i, sm)
        /\ UNCHANGED <<sm, threadsRest>>

ThreadReads ==
    \E i \in Threads :
        /\ threads.t[i].pc = "read"
        /\ threads' = ThreadRead(threads, i, sm)
        /\ UNCHANGED <<sm, threadsRest>>

ThreadTests ==
    \E i \in Threads :
        /\ threads.t[i].pc = "test"
        /\ threads' = ThreadTest(threads, i, sm)
        /\ UNCHANGED <<sm, threadsRest>>

ThreadAssigns ==
    \E i \in Threads :
        /\ threads.t[i].pc = "assign"
        /\ sm' = ThreadAssign(threads, i, sm)
        /\ threads' = [threads EXCEPT !.t[i].pc = "append"]
        /\ UNCHANGED threadsRest

ThreadAppends ==
    \E i \in Threads :
        /\ threads.t[i].pc = "append"
        /\ sm' = ThreadAppend(threads, i, sm)
        /\ threads' = [threads EXCEPT !.t[i].pc = "exit", !.t[i].ret = TRUE]
        /\ UNCHANGED threadsRest

ThreadExits ==
    \E i \in Threads :
        /\ threads.t[i].pc = "exit"
        /\ threads' = ThreadExit(threads, i)
        /\ UNCHANGED <<sm, threadsRest>>

NextThreads ==
    \/ ThreadCalls
    \/ ThreadEnters
    \/ ThreadReads
    \/ ThreadTests
    \/ ThreadAssigns
    \/ ThreadAppends
    \/ ThreadExits

SpecThreads == InitThreads /\ [][NextThreads]_vars

\* ------------------------------------------------------------------------
\* A driver of the RawInputHandler alone (as tests/test_raw_input.py drives
\* it): bytes arrive on stdin one at a time and get_event is called at any
\* moment, so every split of a byte sequence across calls occurs.
\* ------------------------------------------------------------------------
\* Bytes the terminal delivers.
InputKeys ==
    {97, SPACE, CR, LF, DEL, BS, ESC, LBRACKET, ARROW_UP, ARROW_DOWN,
     ARROW_RIGHT, ARROW_LEFT, CTRL_C, CTRL_D}
\* Number of bytes delivered in one run of the driver
MaxBytes == 3

\* Lines submitted earlier: "a" and "aa".
Line1 == <<97>>
Line2 == <<97, 97>>
\* A history at its cap: HISTORY_MAX lines, no two neighbours equal.
FullHistory ==
    [i \in 1..HISTORY_MAX |-> IF i % 2 = 1 THEN Line1 ELSE Line2]
\* A buffer at its cap.
FullBuffer == [i \in 1..MAX_INPUT_LENGTH |-> 97]

\* Handler states the driver starts from; each is a state typing reaches.
InputStarts ==
    { RawInputHandlerInit,
      [RawInputHandlerInit EXCEPT !.history = <<Line1>>,
                                  !.input_buffer = <<97, 98>>,
                                  !.cursor_pos = 0],
      [RawInputHandlerInit EXCEPT !.history = <<Line1, Line2>>],
      [RawInputHandlerInit EXCEPT !.input_buffer = <<97, 98>>,
                                  !.cursor_pos = 1],
      [RawInputHandlerInit EXCEPT !.last_was_escape = TRUE,
                                  !.input_buffer = <<97, 98>>,
                                  !.cursor_pos = 2],
      [RawInputHandlerInit EXCEPT !.history = FullHistory,
                                  !.history_index = -2,
                                  !.input_buffer = Line1,
                                  !.cursor_pos = 1] }

\* No call has read anything yet.
NoCall == [op |-> "none", arg |-> <<>>, ret |-> NoEvent, pre |-> None]

InputInit(starts) ==
    /\ ih \in starts
    /\ last = NoCall
    /\ sm = StateManagerInit
    /\ stdin = <<>>
    /\ typed = 0
    /\ rd = StreamingRendererInit
    /\ stopEvent = FALSE
    /\ running = TRUE
    /\ pc = "top"
    /\ evCount = 0
    /\ conv = <<>>
    /\ queue = <<>>
    /\ current_input = <<>>
    /\ ready = <<>>
    /\ mustRun = 0
    /\ timers = {}
    /\ thinkCalls = {}
    /\ speakCalls = {}
    /\ nextId = 0
    /\ applied = <<>>
    /\ lastEv = NoneSeen
    /\ legacy = LegacyInit
    /\ threads = ThreadsInit

\* What the driver leaves alone.
inputRest ==
    <<sm, rd, stopEvent, running, pc, evCount, conv, queue, current_input,
      ready, mustRun, timers, thinkCalls, speakCalls, nextId, applied,
      lastEv, legacy, threads>>

\* stdin is at end of input.
AtEOF(in) == in # <<>> /\ in[Len(in)].b = EOF

\* A byte arrives on stdin.
TypeKey ==
    \E b \in InputKeys :
        /\ typed < MaxBytes
        /\ ~AtEOF(stdin)
        /\ stdin' = Append(stdin, [b |-> b, ph |-> "IDLE"])
        /\ typed' = typed + 1
        /\ UNCHANGED <<ih, last, inputRest>>

\* The terminal is closed: from now on stdin is at end of input.
CloseInput ==
    /\ ~AtEOF(stdin)
    /\ stdin' = Append(stdin, [b |-> EOF, ph |-> "IDLE"])
    /\ UNCHANGED <<ih, last, typed, inputRest>>

\* handler.get_event(): `last` keeps the bytes the call read and the event
\* it returned (a call that finds nothing to read leaves no record).
CallGetEvent ==
    LET r == get_event(ih, Bytes(stdin)) IN
    /\ ih' = r.h
    /\ stdin' = SubSeq(stdin, r.n + 1, Len(stdin))
    /\ last' = IF r.n = 0 /\ r.ev = NoEvent
               THEN last
               ELSE [op |-> "get_event", arg |-> SubSeq(Bytes(stdin), 1, r.n),
                     ret |-> r.ev, pre |-> None]
    /\ UNCHANGED <<typed, inputRest>>

\* handler.clear_buffer()
CallClearBuffer ==
    /\ ih' = clear_buffer(ih)
    /\ UNCHANGED <<last, stdin, typed, inputRest>>

NextInput ==
    \/ TypeKey
    \/ CloseInput
    \/ CallGetEvent
    \/ CallClearBuffer

InitInput == InputInit(InputStarts)

SpecInput == InitInput /\ [][NextInput]_vars

\* The same driver started with the buffer at MAX_INPUT_LENGTH, typing
\* 'a', '[' and DEL.
FullKeys == {97, LBRACKET, DEL}
MaxFullBytes == 3

FullStarts ==
    { [RawInputHandlerInit EXCEPT !.input_buffer = FullBuffer,
                                  !.cursor_pos = c]
      : c \in {0, MAX_INPUT_LENGTH} }

InitFull == InputInit(FullStarts)

TypeKeyFull ==
    \E b \in FullKeys :
        /\ typed < MaxFullBytes
        /\ stdin' = Append(stdin, [b |-> b, ph |-> "IDLE"])
        /\ typed' = typed + 1
        /\ UNCHANGED <<ih, last, inputRest>>

NextFull ==
    \/ TypeKeyFull
    \/ CallGetEvent

SpecFull == InitFull /\ [][NextFull]_vars

\* ------------------------------------------------------------------------
\* Claims
\* ------------------------------------------------------------------------
\* The transition table as the specification states it.
AllowedTargets ==
    [s \in AppState |->
        IF s = "IDLE" THEN {"THINKING"}
        ELSE IF s = "THINKING" THEN {"TALKING", "IDLE", "ERROR"}
        ELSE IF s = "TALKING" THEN {"IDLE", "ERROR"}
        ELSE {"IDLE"}]

\* C1: transition_to(to) returns True exactly when `to` is an allowed
\* target of the phase it was called in (also for to = current phase), and
\* a False return leaves phase, last error and transition history as they
\* were.
C1_TransitionTable ==
    last.op = "transition_to" =>
        /\ last.ret = (last.arg \in AllowedTargets[last.pre.state])
        /\ last.ret = FALSE =>
              /\ sm.state = last.pre.state
              /\ sm.last_error = last.pre.last_error
              /\ sm.history = last.pre.history

\* A rejected self-transition out of TALKING, reached after a stored error.
C1_Witness ==
    /\ last.op = "transition_to"
    /\ last.ret = FALSE
    /\ last.pre.state = "TALKING"
    /\ last.arg \in {"TALKING", "THINKING"}
    /\ Len(sm.history) > 0

\* ------------------------------------------------------------------------
\* Claims about the orchestrator
\* ------------------------------------------------------------------------
\* The step is a pass of _process_input that reads terminal bytes.
ReadsInput ==
    /\ pc = "input"
    /\ evCount < MaxEvents
    /\ Len(stdin') < Len(stdin)

\* The event that pass returns.
NextEvent == get_event(ih, Bytes(stdin)).ev

\* The step is the start of a frame (_process_state).
StartsFrame == pc \in {"top", "sleep"} /\ pc' = "input"

\* The step runs the coroutine at the head of the ready queue, of kind k.
Runs(k) ==
    /\ pc = "sleep"
    /\ ready # <<>>
    /\ Head(ready).k = k
    /\ mustRun' = (IF mustRun > 0 THEN mustRun - 1 ELSE 0)
    /\ UNCHANGED <<pc, stdin, rd>>
    /\ \/ ready' = Tail(ready)
       \/ Len(ready') = Len(ready) /\ ready' # ready

\* C2: a Ctrl-C typed while the lifecycle is THINKING or TALKING cancels
\* the current effect when the orchestrator handles it: stop() on the
\* speaker (when typed in TALKING), the reveal skipped to its end, the
\* lifecycle forced to IDLE, and the process keeps running.
C2_InterruptCancelsTurn ==
    [][ (/\ ReadsInput
         /\ NextEvent.type = "INTERRUPT"
         /\ stdin[1].ph \in {"THINKING", "TALKING"})
        => (/\ running'
            /\ sm'.state = "IDLE"
            /\ rd'.complete
            /\ rd'.current_pos = Len(rd'.full_text)
            /\ (stdin[1].ph = "TALKING" => stopEvent')) ]_vars

\* C3: a think result dequeued while the lifecycle is not THINKING is
\* discarded: no conversation entry, no reveal started, no speak task.
C3_LateResultDiscarded ==
    [][ (/\ pc = "responses"
         /\ pc' = "top"
         /\ queue # <<>>
         /\ sm.state # "THINKING")
        => (/\ conv' = conv
            /\ rd' = rd
            /\ ready' = ready
            /\ applied' = applied) ]_vars

\* C4: at most one think call and at most one speak call are in flight.
C4_OneCallInFlight ==
    /\ Cardinality(thinkCalls) <= 1
    /\ Cardinality(speakCalls) <= 1

C6_AppliedInOrder ==
    \A i, j \in 1..Len(applied) : i < j => applied[i] < applied[j]

\* C7: a frame that starts with the lifecycle in ERROR for more than 5 s
\* (the instant T+5.0 s itself is left out) and no input pending moves it to
\* IDLE and clears last_error.
C7_ErrorTimeout ==
    [][ (/\ StartsFrame
         /\ sm.state = "ERROR"
         /\ sm.duration > ErrorTimeout
         /\ stdin = <<>>)
        => (sm'.state = "IDLE" /\ sm'.last_error = None) ]_vars

\* C8: a text submission handled while the lifecycle is ERROR returns it to
\* IDLE and is discarded: no handler task, no think call, no conversation
\* entry.
C8_TextInErrorDismisses ==
    [][ (/\ ReadsInput
         /\ NextEvent.type = "TEXT"
         /\ sm.state = "ERROR")
        => (/\ sm'.state = "IDLE"
            /\ ready' = ready
            /\ nextId' = nextId
            /\ thinkCalls' = thinkCalls
            /\ conv' = conv) ]_vars

\* A submission was handled in ERROR; the lifecycle is IDLE and the
\* conversation holds only the first turn's prompt.
C8_Witness ==
    /\ lastEv.type = "TEXT"
    /\ lastEv.phase = "ERROR"
    /\ sm.state = "IDLE"
    /\ pc = "input"
    /\ nextId = 1
    /\ Len(conv) = 1
    /\ ready = <<>>

\* C9: a failed think call puts the lifecycle in ERROR with a non-empty
\* message, enqueues no result, and leaves the tick loop running.
C9_ThinkFailureSurfaces ==
    [][ Runs("brain_fail")
        => (/\ sm'.state = "ERROR"
            /\ sm'.last_error \notin {None, ""}
            /\ queue' = queue
            /\ running' = running) ]_vars

\* C10: a failed speak call puts the lifecycle in ERROR with a message, and
\* the lifecycle leaves that ERROR only when the user dismisses it (a text
\* submission; a Ctrl-C pressed in ERROR is not held against the claim) or
\* when the error timeout has passed.
AudioMessages == {SpeakErrorMessage(e) : e \in SpeakErrors}

C10_SpeakFailureStays ==
    [][ /\ Runs("speak_fail") =>
            (sm'.state = "ERROR" /\ sm'.last_error \in AudioMessages)
        /\ (/\ sm.state = "ERROR"
            /\ sm.last_error \in AudioMessages
            /\ sm'.state # "ERROR") =>
            \/ ReadsInput /\ NextEvent.type \in {"TEXT", "INTERRUPT"}
            \/ StartsFrame /\ sm.duration >= ErrorTimeout ]_vars

\* C11: no step takes the lifecycle out of TALKING while the renderer has
\* revealed less than the full response.
C11_TalkingUntilRevealed ==
    [][ (sm.state = "TALKING" /\ sm'.state # "TALKING")
        => rd'.current_pos = Len(rd'.full_text) ]_vars

\* ------------------------------------------------------------------------
\* Claims about the input decoder
\* ------------------------------------------------------------------------
ArrowKeys == {ARROW_UP, ARROW_DOWN, ARROW_RIGHT, ARROW_LEFT}

\* The step is a get_event call that reads bytes, and what it returns.
ReadsBytes == Len(stdin') < Len(stdin)
Returned == get_event(ih, Bytes(stdin))

\* The bytes not yet resolved: those held back by the decoder, then those
\* waiting on stdin.
Unresolved == ih.escape_buffer \o Bytes(stdin)

\* These bytes are an arrow sequence or the beginning of one.
StartsArrow(p) ==
    /\ p # <<>>
    /\ p[1] = ESC
    /\ Len(p) >= 2 => p[2] = LBRACKET
    /\ Len(p) >= 3 => p[3] \in ArrowKeys

\* The arrow would change the buffer, the cursor or the history index.
ArrowActs(h, key) ==
    \/ key = ARROW_DOWN
    \/ key = ARROW_UP /\ h.history # <<>>
    \/ key = ARROW_RIGHT /\ h.cursor_pos < Len(h.input_buffer)
    \/ key = ARROW_LEFT /\ h.cursor_pos > 0

\* g is h after the arrow's edit, made once.
EditedOnce(h, g, key) ==
    LET e == Arrow(h, key) IN
    /\ g.input_buffer = e.input_buffer
    /\ g.cursor_pos = e.cursor_pos
    /\ g.history = e.history
    /\ g.history_index = e.history_index

\* The call reads on but does not reach the third byte: it holds back what
\* it has read and edits nothing.
HeldBack(h, g, p, r) ==
    /\ r.n >= 1
    /\ Len(h.escape_buffer) + r.n < 3
    /\ r.ev = NoEvent
    /\ g.escape_buffer = SubSeq(p, 1, Len(h.escape_buffer) + r.n)
    /\ g.input_buffer = h.input_buffer
    /\ g.cursor_pos = h.cursor_pos
    /\ g.history = h.history
    /\ g.history_index = h.history_index

\* The call gets to the third byte of the sequence: a call that starts the
\* sequence reads all the bytes there are, a call that continues it reads
\* one byte.
ReachesThird(h, p) ==
    /\ Len(p) >= 3
    /\ h.escape_buffer = <<>> \/ Len(h.escape_buffer) = 2

InsertAt(t, c, b) == SubSeq(t, 1, c) \o <<b>> \o SubSeq(t, c + 1, Len(t))

\* g is h after the byte b was typed as text.
TypedAsText(h, g, b) ==
    /\ g.input_buffer = InsertAt(h.input_buffer, h.cursor_pos, b)
    /\ g.cursor_pos = h.cursor_pos + 1

\* An escape sequence has just been resolved: the handler's own flag says
\* so, or the last call read a whole three-byte sequence.
AfterEscape ==
    \/ ih.last_was_escape
    \/ last.op = "get_event" /\ Len(last.arg) = 3 /\ last.arg[1] = ESC

\* C13: with no escape pending and an escape sequence just resolved, a
\* call that reads '[' or 'A'..'D' first inserts it at the cursor and
\* returns its CHAR event.
C13_BracketAfterEscapeIsText ==
    [][ (/\ ReadsBytes
         /\ ih.escape_buffer = <<>>
         /\ AfterEscape
         /\ stdin[1].b \in {LBRACKET} \cup ArrowKeys
         /\ Len(ih.input_buffer) < MAX_INPUT_LENGTH)
        => (/\ TypedAsText(ih, ih', stdin[1].b)
            /\ Returned.ev = Event("CHAR", <<>>, stdin[1].b)) ]_vars

\* The bytes a get_event call reads.
Consumed == SubSeq(Bytes(stdin), 1, Returned.n)

\* The step is a get_event call made with stdin at end of input.
CallAtEOF == stdin # <<>> /\ stdin[1].b = EOF /\ last' # last

\* C14: whatever the decoder state, a call that reads a Ctrl-C byte returns
\* INTERRUPT, a call that reads a Ctrl-D byte returns EXIT, and a call made
\* at end of input returns EXIT; the byte leaves no trace in the escape
\* buffer or the input buffer.
C14_ControlBytesMapDirectly ==
    [][ /\ (ReadsBytes /\ \E i \in 1..Len(Consumed) : Consumed[i] = CTRL_C)
            => (/\ Returned.ev.type = "INTERRUPT"
                /\ Len(Consumed) = 1
                /\ ih'.escape_buffer = ih.escape_buffer
                /\ ih'.input_buffer = ih.input_buffer)
        /\ (ReadsBytes /\ \E i \in 1..Len(Consumed) : Consumed[i] = CTRL_D)
            => (/\ Returned.ev.type = "EXIT"
                /\ Len(Consumed) = 1
                /\ ih'.escape_buffer = ih.escape_buffer
                /\ ih'.input_buffer = ih.input_buffer)
        /\ CallAtEOF => Returned.ev.type = "EXIT" ]_vars

\* The history after the line text was submitted.
Submitted(hist, text) ==
    IF hist # <<>> /\ hist[Len(hist)] = text
    THEN hist
    ELSE IF Len(hist) >= HISTORY_MAX
         THEN SubSeq(hist, 2, Len(hist)) \o <<text>>
         ELSE hist \o <<text>>

\* The step is a get_event call that reads an Enter keystroke (CR or LF)
\* with no escape sequence pending.
ReadsEnter ==
    /\ ReadsBytes
    /\ ih.escape_buffer = <<>>
    /\ stdin[1].b \in {CR, LF}

\* C15: Enter always empties the buffer and puts the cursor at 0; with a
\* non-empty trimmed text it returns one event (TEXT with the trimmed text,
\* EXIT for an exit command) and pushes the text to the history unless it
\* is the most recent entry; with an empty trimmed text it returns no event
\* and leaves the history alone.
C15_EnterSubmitsTrimmed ==
    [][ ReadsEnter =>
          LET text == Strip(ih.input_buffer)
              r == Returned
          IN /\ r.n = 1
             /\ ih'.input_buffer = <<>>
             /\ ih'.cursor_pos = 0
             /\ IF text # <<>>
                THEN /\ r.ev = IF Lower(text) \in EXIT_COMMANDS
                               THEN Event("EXIT", <<>>, 0)
                               ELSE Event("TEXT", text, 0)
                     /\ ih'.history = Submitted(ih.history, text)
                     /\ ih'.history_index = -1
                ELSE /\ r.ev = NoEvent
                     /\ ih'.history = ih.history
                     /\ ih'.history_index = ih.history_index ]_vars

\* "a " was typed after the lines "a" and "aa" and submitted: the event
\* carries "a", which is now the third history entry.
C15_Witness ==
    /\ last.op = "get_event"
    /\ last.arg \in {<<CR>>, <<LF>>}
    /\ last.ret = Event("TEXT", Line1, 0)
    /\ typed = 3
    /\ ih.history = <<Line1, Line2, Line1>>
    /\ ih.input_buffer = <<>>
    /\ ih.cursor_pos = 0

\* The byte is a printable character.
IsPrintable(b) == b >= 32 /\ b # DEL

\* C16: a call that reads a printable byte with no escape sequence pending
\* and the buffer below its maximum length reads that byte only, inserts it
\* at the cursor, moves the cursor one to the right and returns the CHAR
\* event of the character.
C16_PrintableInserted ==
    [][ (/\ ReadsBytes
         /\ ih.escape_buffer = <<>>
         /\ IsPrintable(stdin[1].b)
         /\ Len(ih.input_buffer) < MAX_INPUT_LENGTH)
        => (/\ Returned.n = 1
            /\ TypedAsText(ih, ih', stdin[1].b)
            /\ Returned.ev = Event("CHAR", <<>>, stdin[1].b)) ]_vars

\* C17: the buffer never grows past MAX_INPUT_LENGTH, and a printable byte
\* read with the buffer at the maximum is dropped: no event, buffer and
\* cursor as before.
C17_BufferCeiling ==
    [][ /\ Len(ih'.input_buffer) <= MAX_INPUT_LENGTH
        /\ (/\ ReadsBytes
            /\ ih.escape_buffer = <<>>
            /\ IsPrintable(stdin[1].b)
            /\ Len(ih.input_buffer) = MAX_INPUT_LENGTH)
           => (/\ Returned.ev = NoEvent
               /\ ih'.input_buffer = ih.input_buffer
               /\ ih'.cursor_pos = ih.cursor_pos) ]_vars

\* An 'a' was read with the buffer full, after two earlier bytes: nothing
\* was returned and the buffer is still at the maximum.
C17_Witness ==
    /\ last.op = "get_event"
    /\ last.arg = <<97>>
    /\ last.ret = NoEvent
    /\ typed = 3
    /\ stdin = <<>>
    /\ Len(ih.input_buffer) = MAX_INPUT_LENGTH

\* The step is the get_event call that reads the last byte of the arrow
\* sequence of this key.
CompletesArrow(key) ==
    /\ ReadsBytes
    /\ StartsArrow(Unresolved)
    /\ ReachesThird(ih, Unresolved)
    /\ Unresolved[3] = key

\* The step leaves buffer and cursor as they were and returns no event.
NothingEdited ==
    /\ ih'.input_buffer = ih.input_buffer
    /\ ih'.cursor_pos = ih.cursor_pos
    /\ Returned.ev = NoEvent

\* C18: after every step the cursor is a valid insertion point of the
\* buffer; a backspace with the cursor at 0, a Left arrow with the cursor
\* at 0 and a Right arrow with the cursor at the end change nothing.
C18_CursorInBuffer ==
    [][ /\ 0 <= ih'.cursor_pos
        /\ ih'.cursor_pos <= Len(ih'.input_buffer)
        /\ (/\ ReadsBytes
            /\ ih.escape_buffer = <<>>
            /\ stdin[1].b \in {DEL, BS}
            /\ ih.cursor_pos = 0) => NothingEdited
        /\ (CompletesArrow(ARROW_LEFT) /\ ih.cursor_pos = 0)
               => NothingEdited
        /\ (CompletesArrow(ARROW_RIGHT)
               /\ ih.cursor_pos = Len(ih.input_buffer))
               => NothingEdited ]_vars

\* A Right arrow was read with the cursor at the end of "ab": no event, and
\* the cursor is still at 2.
C18_Witness ==
    /\ last.op = "get_event"
    /\ last.arg = <<ESC, LBRACKET, ARROW_RIGHT>>
    /\ last.ret = NoEvent
    /\ ih.input_buffer = <<97, 98>>
    /\ ih.cursor_pos = 2

\* The step is an Enter keystroke that submits a non-empty line.
SubmitsLine ==
    ReadsEnter /\ Strip(ih.input_buffer) # <<>>

\* C19: the history never holds more than 100 lines; a line pushed onto a
\* full history evicts the oldest one; every Enter that submits a
\* non-empty line puts the history index back at -1.
C19_HistoryCapped ==
    [][ /\ Len(ih'.history) <= HISTORY_MAX
        /\ SubmitsLine =>
              LET text == Strip(ih.input_buffer)
              IN /\ ih'.history_index = -1
                 /\ (/\ Len(ih.history) = HISTORY_MAX
                     /\ ih.history[HISTORY_MAX] # text)
                        => ih'.history = Tail(ih.history) \o <<text>> ]_vars

\* With 100 lines in the history and the index two steps back, Enter
\* submitted a new line: the oldest line is gone, the new one is last and
\* the index is at the present.
C19_Witness ==
    /\ last.op = "get_event"
    /\ last.arg = <<CR>>
    /\ last.ret = Event("TEXT", Line1, 0)
    /\ typed = 1
    /\ ih.history = Tail(FullHistory) \o <<Line1>>
    /\ ih.history_index = -1

\* C20: a Down arrow with the history index at -1 empties the buffer, puts
\* the cursor at 0 and raises nothing; an Up arrow with an empty history
\* leaves the handler's line state alone and returns no event.
C20_HistoryEdges ==
    [][ /\ (CompletesArrow(ARROW_DOWN) /\ ih.history_index = -1)
              => /\ ih'.input_buffer = <<>>
                 /\ ih'.cursor_pos = 0
                 /\ ih'.history_index = -1
                 /\ ih'.history = ih.history
                 /\ Returned.ev # Raised
        /\ (CompletesArrow(ARROW_UP) /\ ih.history = <<>>)
              => /\ NothingEdited
                 /\ ih'.history = <<>>
                 /\ ih'.history_index = ih.history_index ]_vars

\* A Down arrow was read with "ab" in the buffer and the index at -1: the
\* buffer is empty and the cursor at 0.
C20_Witness ==
    /\ last.op = "get_event"
    /\ last.arg = <<ESC, LBRACKET, ARROW_DOWN>>
    /\ typed = 3
    /\ ih.history = <<Line1>>
    /\ ih.history_index = -1
    /\ ih.input_buffer = <<>>
    /\ ih.cursor_pos = 0

\* C21: an Up arrow with the history index at -1 and a non-empty history
\* loads the most recently submitted line with the cursor at its end; a
\* Down arrow from an older entry loads the next newer entry.
C21_UpRestoresLatest ==
    [][ /\ (CompletesArrow(ARROW_UP) /\ ih.history_index = -1
                                      /\ ih.history # <<>>)
              => /\ ih'.input_buffer = ih.history[Len(ih.history)]
                 /\ ih'.cursor_pos = Len(ih'.input_buffer)
        /\ (CompletesArrow(ARROW_DOWN) /\ ih.history_index < -1)
              => /\ ih'.history_index = ih.history_index + 1
                 /\ ih'.input_buffer = AtNeg(ih.history, ih.history_index + 1)
                 /\ ih'.cursor_pos = Len(ih'.input_buffer) ]_vars

\* C22: no get_event call waits for input: whatever the decoder state and
\* the bytes on stdin, the call returns from the bytes already there
\* (every select it makes has timeout 0).
C22_NeverWaits ==
    [][ ReadsBytes => ~Returned.waited ]_vars

\* ------------------------------------------------------------------------
\* Claims about set_error, force_state and the observers
\* ------------------------------------------------------------------------
\* C23: set_error(message) called in IDLE, THINKING or TALKING returns
\* True, puts the machine in ERROR and makes last_error the message.
C23_SetErrorEntersError ==
    (last.op = "set_error"
        /\ last.pre.state \in {"IDLE", "THINKING", "TALKING"}) =>
        /\ last.ret = TRUE
        /\ sm.state = "ERROR"
        /\ sm.last_error = last.arg

\* C24: set_error returns True exactly when ERROR is an allowed target of
\* the phase it was called in, and a False return leaves the phase and
\* last_error as they were.
C24_SetErrorIsTransition ==
    last.op = "set_error" =>
        /\ last.ret = ("ERROR" \in AllowedTargets[last.pre.state])
        /\ last.ret = FALSE =>
              /\ sm.state = last.pre.state
              /\ sm.last_error = last.pre.last_error

\* C25: force_state(to) sets the phase to `to` from every phase and adds
\* exactly one record to the transition history.
C25_ForceStateRecorded ==
    last.op = "force_state" =>
        /\ sm.state = last.arg
        /\ Len(sm.history) = Len(last.pre.history) + 1

\* The callback is in the manager's observer list.
Registered(m, o) == \E i \in 1..Len(m.observers) : m.observers[i] = o

\* How often the callback is in the list / was called.
Registrations(m, o) ==
    Cardinality({i \in 1..Len(m.observers) : m.observers[i] = o})
CallsTo(calls, o) ==
    Cardinality({i \in 1..Len(calls) : calls[i].observer = o})

\* A transition_to call returned what the table says and, when that is
\* True, changed the phase, whatever the observers did.
TransitionUnharmed ==
    /\ last.ret = (last.arg \in AllowedTargets[last.pre.state])
    /\ last.ret = TRUE => sm.state = last.arg
    /\ last.ret = FALSE => last.calls = <<>>
    /\ \A i \in 1..Len(last.calls) :
          /\ last.calls[i].old = last.pre.state
          /\ last.calls[i].new = last.arg

\* C26 as stated: a successful transition_to calls every registered
\* observer exactly once with (old, new), also after an observer raised; a
\* rejected one calls none; after remove_observer(o) the observer o is not
\* registered, so it is not called again.
C26_EachObserverOnce ==
    /\ last.op = "transition_to" =>
          /\ TransitionUnharmed
          /\ last.ret = TRUE =>
                \A o \in Observers :
                    CallsTo(last.calls, o) =
                        IF Registered(last.pre, o) THEN 1 ELSE 0
    /\ last.op = "remove_observer" => ~Registered(sm, last.arg)

\* C26, amended: a successful transition_to calls the observers in
\* registration order, once per registration, with (old, new), also after
\* an observer raised; a rejected one calls none; remove_observer(o) takes
\* out one registration of o and leaves the others, and an observer with no
\* registration is not called.
C26_EachRegistrationOnce ==
    /\ last.op = "transition_to" =>
          /\ TransitionUnharmed
          /\ last.ret = TRUE =>
                /\ Len(last.calls) = Len(last.pre.observers)
                /\ \A i \in 1..Len(last.calls) :
                      last.calls[i].observer = last.pre.observers[i]
    /\ last.op = "remove_observer" =>
          \A o \in Observers :
              Registrations(sm, o) =
                  IF o = last.arg /\ Registered(last.pre, o)
                  THEN Registrations(last.pre, o) - 1
                  ELSE Registrations(last.pre, o)

\* With a raising observer registered before a returning one, a transition
\* succeeded and both were called.
C26_Witness ==
    /\ last.op = "transition_to"
    /\ last.ret = TRUE
    /\ last.pre.observers = <<"bad", "obs">>
    /\ Len(last.calls) = 2
    /\ last.calls[1].raised
    /\ sm.state = last.arg

\* ------------------------------------------------------------------------
\* Claims about the renderer
\* ------------------------------------------------------------------------
\* C27: once skip() has been called, and until the next stream is started,
\* current_text is the full text and is_complete is true: after the first
\* skip, after every further skip, and whatever the reveal threads that
\* were running at the first skip do afterwards.
C27_SkipIdempotent ==
    last.op = "skip" =>
        /\ current_text(rd) = rd.full_text
        /\ rd.complete
        /\ rd.full_text = last.pre.full_text

\* A second skip() of a two-character stream whose thread was running,
\* with one character revealed, at the first skip and outlived its join.
C27_Witness ==
    /\ last.op = "skip"
    /\ last.skips = 2
    /\ last.pre.cur = "loop"
    /\ last.pre.running
    /\ Len(last.pre.full_text) = 2
    /\ last.pre.current_pos = 1
    /\ rd.cur # "dead"

\* ------------------------------------------------------------------------
\* Claims about the deprecated globals
\* ------------------------------------------------------------------------
\* Threads of speak_threaded that have not ended.
LegacyThreads(g) ==
    g.speaking + g.finishing["return"] + g.finishing["raise"]

\* C28: when speak_threaded returns, is_speaking is True (and its thread
\* exists); when the speak call of a thread ends, by returning or by
\* raising, that thread sets is_speaking to False and goes on to set
\* APP_STATE to "IDLE" before it ends.
C28_SpeakThreadedFlag ==
    [][ /\ LegacyThreads(legacy') > LegacyThreads(legacy)
              => legacy'.is_speaking
        /\ legacy'.speaking < legacy.speaking
              => /\ ~legacy'.is_speaking
                 /\ LegacyThreads(legacy') = LegacyThreads(legacy)
        /\ LegacyThreads(legacy') < LegacyThreads(legacy)
              => /\ legacy'.APP_STATE = "IDLE"
                 /\ legacy'.speaking = legacy.speaking ]_vars

\* A thread whose speak call raised has ended: it left the flag False and
\* moved APP_STATE from "TALKING" to "IDLE".
C28_Witness ==
    /\ last.op = "speak_task_end"
    /\ last.how = "raise"
    /\ last.pre.APP_STATE = "TALKING"
    /\ legacy.APP_STATE = "IDLE"
    /\ ~legacy.is_speaking
    /\ LegacyThreads(legacy) = 0

\* ------------------------------------------------------------------------
\* Invariants of the lifecycle data
\* ------------------------------------------------------------------------
\* C29: whatever transition_to, set_error and force_state calls were made,
\* last_error is None unless the phase is ERROR.
C29_ErrorOnlyInError ==
    sm.state # "ERROR" => sm.last_error = None

\* C30: in every state of the orchestrator, speaking_text is None unless
\* the lifecycle is TALKING.
C30_SpeakingOnlyInTalking ==
    sm.state # "TALKING" => sm.speaking_text = NoText

\* ------------------------------------------------------------------------
\* Claims about threads sharing the StateManager
\* ------------------------------------------------------------------------
\* Thread i returns from its call in this step.
Returns(i) == threads.t[i].pc = "exit" /\ threads'.t[i].pc = "out"

\* C31: with several threads inside transition_to and the state property,
\* every change of the phase is an edge of the table; a transition_to call
\* that returns True has moved the manager it found at the lock by exactly
\* its own transition (phase and history record) and one that returns
\* False has left it as it was; every read returns one of the four phases.
C31_CallsSerialised ==
    [][ /\ sm'.state # sm.state
              => sm'.state \in AllowedTargets[sm.state]
        /\ \A i \in Threads :
              Returns(i) =>
                LET c == threads.t[i] IN
                IF c.op = "state"
                THEN c.ret \in AppState /\ c.ret = sm.state /\ sm = c.pre
                ELSE /\ c.ret = (c.to \in AllowedTargets[c.pre.state])
                     /\ c.ret = TRUE =>
                           /\ sm.state = c.to
                           /\ sm.history =
                                  Append(c.pre.history, <<c.pre.state, c.to>>)
                     /\ c.ret = FALSE => sm = c.pre ]_vars

\* One thread waits for the lock with an allowed transition while the
\* other, inside transition_to, has assigned the state and not yet
\* appended its record.
C31_Witness ==
    \E i, j \in Threads :
        /\ threads.lock = j
        /\ threads.t[j].pc = "append"
        /\ threads.t[i].pc = "with"
        /\ threads.t[i].op = "transition_to"
        /\ threads.t[i].to \in AllowedTargets[sm.state]
        /\ Len(sm.history) >= 1

\* C32: the reveal cursor is never past the end of the text and
\* current_text is the prefix of the text of the cursor's length; in every
\* step that is not a start_stream call the text stays and the cursor does
\* not go back, also with leftover reveal threads alive.
C32_CursorMonotonic ==
    [][ /\ 0 <= rd'.current_pos
        /\ rd'.current_pos <= Len(rd'.full_text)
        /\ Len(current_text(rd')) = rd'.current_pos
        /\ \A k \in 1..Len(current_text(rd')) :
              current_text(rd')[k] = rd'.full_text[k]
        /\ last'.streams = last.streams
              => /\ rd'.full_text = rd.full_text
                 /\ rd'.current_pos >= rd.current_pos ]_vars

\* The second stream, of two characters, is fully revealed with no skip,
\* while a reveal thread of the first stream is still in its loop.
C32_Witness ==
    /\ last.op = "start_stream"
    /\ last.streams = 2
    /\ rd.oldLoop > 0
    /\ Len(rd.full_text) = 2
    /\ rd.current_pos = 2

\* C36: after start_stream(text) with a non-empty text, and as long as
\* neither stop() nor skip() has been called, is_complete is false unless
\* the cursor is at the end of the text, also when reveal threads of
\* earlier streams are still alive.
C36_CompleteOnlyAtEnd ==
    (last.op = "start_stream" /\ rd.full_text # <<>> /\ rd.complete)
        => rd.current_pos = Len(rd.full_text)

\* C37: every iteration of the tick loop yields to the event loop: a frame
\* (_process_state) starts only after the main coroutine was suspended in
\* asyncio.sleep, also when the last frame took longer than the refresh
\* interval.
C37_EveryIterationYields == [][StartsFrame => pc = "sleep"]_vars

\* The fields of the input handler an event can change.
EditState(h) ==
    <<h.input_buffer, h.cursor_pos, h.history, h.history_index,
      h.escape_buffer>>

TurnsUnderWay ==
    {c.id : c \in thinkCalls} \cup {c.id : c \in speakCalls}
        \cup {t.id : t \in timers}
        \cup {queue[i].id : i \in 1..Len(queue)}
        \cup {ready[i].id : i \in {j \in 1..Len(ready) : ready[j].k # "handle"}}

\* C35: a speak worker that reaches the end of its finally block does not
\* put the lifecycle in IDLE while it is THINKING or TALKING and a later
\* turn is under way.
C35_ForceEndsOwnTurn ==
    [][ \A k \in {"speak_done", "speak_fail", "speak_wait"} :
            (/\ Runs(k)
             /\ sm.state \in {"THINKING", "TALKING"}
             /\ \E i \in TurnsUnderWay : i > Head(ready).id)
            => sm'.state # "IDLE" ]_vars

\* C38: whatever has been typed, the history index is -1 when the history
\* is empty and lies in -len(history) .. -1 otherwise, so that
\* history[history_index] is an entry of the history.
C38_HistoryIndexInRange ==
    IF ih.history = <<>>
    THEN ih.history_index = -1
    ELSE /\ -Len(ih.history) <= ih.history_index
         /\ ih.history_index <= -1
         /\ Len(ih.history) + ih.history_index + 1 \in 1..Len(ih.history)

\* An Up arrow has been decoded with the index already at the oldest
\* entry of a one-line history: the index stayed at -1 and the line was
\* loaded over the typed text.
C38_Witness ==
    /\ last.op = "get_event"
    /\ last.arg # <<>>
    /\ last.arg[Len(last.arg)] = ARROW_UP
    /\ ih.history = <<Line1>>
    /\ ih.history_index = -1
    /\ ih.input_buffer = Line1
    /\ ih.escape_buffer = <<>>

\* C33: under the scheduling of SpecFair, whenever the lifecycle is
\* THINKING it is IDLE again later, whether the think call returns or
\* raises and whether the speak call returns or raises.
C33_TurnReturnsToIdle == (sm.state = "THINKING") ~> (sm.state = "IDLE")

\* C33 with the user's exit: whenever the lifecycle is THINKING it is IDLE
\* again later, unless the turn failed and the user quits while the error
\* is shown (the tick loop has ended with the lifecycle in ERROR).
C33_TurnReturnsToIdleOrQuit ==
    (sm.state = "THINKING")
        ~> (sm.state = "IDLE" \/ (~running /\ sm.state = "ERROR"))

\* A turn whose speak call raised is over: the lifecycle went through
\* THINKING, TALKING and ERROR and is IDLE again, with the error message
\* of the speak worker kept and nothing left under way.
C33_Witness ==
    /\ sm.state = "IDLE"
    /\ running
    /\ applied = <<0>>
    /\ sm.last_error = SpeakErrorMessage("DeviceNotFound")
    /\ TurnsUnderWay = {}
    /\ ready = <<>>
====
